---- MODULE Spec2Model ----
(***************************************************************************)
(* Constant heat-flux thermoelectric leg / couple optimisation tool        *)
(* (TEG_Optimizertion_Tool.py): the text parser, the two optimisation      *)
(* kernels, the boundary solvers, the load-curve sampler and the handlers  *)
(* of the main frame.                                                      *)
(*                                                                         *)
(* Numbers.  The program computes in IEEE doubles.  The model computes in  *)
(* a binary floating-point format of the same structure with a 15-bit      *)
(* significand and a 7-bit exponent: results are rounded towards zero,     *)
(* overflow gives +-inf, underflow gives 0, and inf and NaN follow the     *)
(* IEEE rules (x/0 = +-inf, 0/0 = inf-inf = 0*inf = NaN, every ordered     *)
(* comparison with NaN false).  A number is stored as one integer, its bit *)
(* pattern taken as a signed magnitude, so that the order of the patterns  *)
(* is the order of the numbers.                                            *)
(*                                                                         *)
(* Library routines (numpy, scipy) are modelled by what they return:       *)
(* polyval/polyint/polyder/convolve by their definitions, quad by the      *)
(* antiderivative (polynomial integrands) or Simpson's rule (the floored   *)
(* conductivity), fsolve and brentq by bisection over the bit patterns.    *)
(*                                                                         *)
(* Evaluation.  An operator's argument is computed once for a call, a name *)
(* introduced by LET is computed wherever it is used.  A value the source  *)
(* keeps in a local variable and reads several times is therefore an       *)
(* argument here: a function of the source is written as a chain of        *)
(* operators, each passing on the locals computed so far.  Arrays are      *)
(* tuples, their elements computed when the array is made.                 *)
(***************************************************************************)
EXTENDS Integers, Sequences, FiniteSets, TLC

AllElements(x) == TRUE
\* the array with the elements of f, computed
Array(f) == SelectSeq(f, AllElements)

(***************************************************************************)
(* Floating point                                                          *)
(***************************************************************************)
M0 == 2^14
M1 == 2^15
EBias == 2^6
MaxFin == 2 * EBias * M0
PInf == MaxFin + 1
NInf == 0 - PInf
NaN == MaxFin + 3

IsNaN(a) == a = NaN
IsInf(a) == a = PInf \/ a = NInf
IsFin(a) == a >= 0 - MaxFin /\ a <= MaxFin

AbsI(a) == IF a < 0 THEN 0 - a ELSE a
SgnI(a) == IF a < 0 THEN 0 - 1 ELSE IF a > 0 THEN 1 ELSE 0
Signed(s, v) == IF s < 0 THEN 0 - v ELSE v

\* exponent and significand of a finite nonzero pattern: |a| = Man * 2^(Exp - 14)
Exp(a) == ((AbsI(a) - 1) \div M0) - EBias
Man(a) == ((AbsI(a) - 1) % M0) + M0

\* the pattern of s * m * 2^(e - 14), for M0 <= m < M1
Pack(s, m, e) ==
    IF e < 0 - EBias THEN 0
    ELSE IF e >= EBias THEN Signed(s, PInf)
    ELSE Signed(s, (e + EBias) * M0 + (m - M0) + 1)

\* the number of bits of n, 1 <= n < 2^31: the least k with n < 2^k
BitLen(n) == IF n >= 2^30 THEN 31 ELSE CHOOSE k \in 1..30 : n < 2^k /\ (k = 1 \/ n >= 2^(k - 1))

\* the pattern of s * n * 2^(e - 14) for an integer 0 <= n < 2^31, truncated
NormBits(s, n, e, k) ==
    Pack(s, IF k > 15 THEN n \div 2^(k - 15) ELSE n * 2^(15 - k), e + (k - 15))

Norm(s, n, e) == IF n = 0 THEN 0 ELSE NormBits(s, n, e, BitLen(n))

FromInt(n) == Norm(SgnI(n), AbsI(n), 14)

Fneg(a) == IF a = NaN THEN NaN ELSE 0 - a

\* big + small for finite nonzero patterns with |big| >= |small|
AddOrd(big, small) ==
    LET d == Exp(big) - Exp(small)
        x == Man(big) * M1
        y == IF d > 30 THEN 0 ELSE (Man(small) * M1) \div 2^d
    IN  Norm(SgnI(big), IF SgnI(big) = SgnI(small) THEN x + y ELSE x - y, Exp(big) - 15)

Fadd(a, b) ==
    IF a = NaN \/ b = NaN THEN NaN
    ELSE IF IsInf(a) THEN (IF IsInf(b) /\ a # b THEN NaN ELSE a)
    ELSE IF IsInf(b) THEN b
    ELSE IF a = 0 THEN b
    ELSE IF b = 0 THEN a
    ELSE AddOrd(IF AbsI(a) >= AbsI(b) THEN a ELSE b, IF AbsI(a) >= AbsI(b) THEN b ELSE a)

Fsub(a, b) == IF a = NaN \/ b = NaN THEN NaN ELSE Fadd(a, 0 - b)

Fmul(a, b) ==
    IF a = NaN \/ b = NaN THEN NaN
    ELSE IF IsInf(a) \/ IsInf(b)
         THEN (IF a = 0 \/ b = 0 THEN NaN ELSE Signed(SgnI(a) * SgnI(b), PInf))
    ELSE IF a = 0 \/ b = 0 THEN 0
    ELSE LET n == (Man(a) * Man(b)) \div M0
             e == Exp(a) + Exp(b)
             s == SgnI(a) * SgnI(b)
         IN  Pack(s, IF n >= M1 THEN n \div 2 ELSE n, IF n >= M1 THEN e + 1 ELSE e)

\* numpy division: x/0 is +-inf, 0/0 is NaN (a RuntimeWarning, no exception)
Fdiv(a, b) ==
    IF a = NaN \/ b = NaN THEN NaN
    ELSE IF IsInf(a) THEN (IF IsInf(b) THEN NaN
                           ELSE Signed(SgnI(a) * (IF b < 0 THEN 0 - 1 ELSE 1), PInf))
    ELSE IF IsInf(b) THEN 0
    ELSE IF b = 0 THEN (IF a = 0 THEN NaN ELSE Signed(SgnI(a), PInf))
    ELSE IF a = 0 THEN 0
    ELSE LET q == (Man(a) * M1) \div Man(b)
             e == Exp(a) - Exp(b)
             s == SgnI(a) * SgnI(b)
         IN  Pack(s, IF q >= M1 THEN q \div 2 ELSE q, IF q >= M1 THEN e ELSE e - 1)

RECURSIVE IsqrtB(_, _, _)
\* the largest r in lo..hi with r*r <= n, given lo*lo <= n
IsqrtB(n, lo, hi) ==
    IF lo >= hi THEN lo
    ELSE LET mid == (lo + hi + 1) \div 2
         IN  IF mid * mid <= n THEN IsqrtB(n, mid, hi) ELSE IsqrtB(n, lo, mid - 1)

\* np.sqrt: NaN for a negative argument (a RuntimeWarning, no exception)
Fsqrt(a) ==
    IF a = NaN \/ a < 0 THEN NaN
    ELSE IF a = PInf THEN PInf
    ELSE IF a = 0 THEN 0
    ELSE LET e == Exp(a)
             k == IF e % 2 = 0 THEN 14 ELSE 15
         IN  Pack(1, IsqrtB(Man(a) * 2^k, M0, M1 - 1), (e - k + 14) \div 2)

Fabs(a) == IF a = NaN THEN NaN ELSE AbsI(a)

\* comparisons: every ordered comparison with NaN is false, NaN != x is true
Flt(a, b) == a # NaN /\ b # NaN /\ a < b
Fle(a, b) == a # NaN /\ b # NaN /\ a <= b
Fgt(a, b) == a # NaN /\ b # NaN /\ a > b
Fge(a, b) == a # NaN /\ b # NaN /\ a >= b
Feq(a, b) == a # NaN /\ b # NaN /\ a = b
Fne(a, b) == ~Feq(a, b)

\* np.maximum propagates NaN
Fmax(a, b) == IF a = NaN \/ b = NaN THEN NaN ELSE IF a >= b THEN a ELSE b

\* decimal literals of the source
Dec(n, k) == Fdiv(FromInt(n), FromInt(10^k))
Zero == FromInt(0)
One == FromInt(1)
Two == FromInt(2)
Fsq(a) == IF a = NaN THEN NaN ELSE Fmul(a, a)

(***************************************************************************)
(* numpy polynomials (coefficients highest power first)                    *)
(***************************************************************************)
RECURSIVE polyvalFrom(_, _, _, _)
\* (a NaN stays NaN through the remaining steps)
polyvalFrom(p, i, T, y) ==
    IF i > Len(p) \/ y = NaN THEN y ELSE polyvalFrom(p, i + 1, T, Fadd(Fmul(y, T), p[i]))

\* np.polyval: y = 0; for c in p: y = y * T + c
polyval(p, T) == polyvalFrom(p, 1, T, Zero)

\* np.polyint: p[i] / (n - i), integration constant 0
polyint(p) ==
    Array([i \in 1..(Len(p) + 1) |->
             IF i = Len(p) + 1 THEN Zero ELSE Fdiv(p[i], FromInt(Len(p) + 1 - i))])

\* np.polyder: p[:-1] * arange(n, 0, -1); empty for a single coefficient
polyder(p) ==
    IF Len(p) = 0 THEN <<>>
    ELSE Array([i \in 1..(Len(p) - 1) |-> Fmul(p[i], FromInt(Len(p) - i))])

RECURSIVE convSum(_, _, _, _, _)
convSum(a, v, k, j, acc) ==
    IF j > Len(a) \/ acc = NaN THEN acc
    ELSE IF k - j + 1 >= 1 /\ k - j + 1 <= Len(v)
         THEN convSum(a, v, k, j + 1, Fadd(acc, Fmul(a[j], v[k - j + 1])))
         ELSE convSum(a, v, k, j + 1, acc)

\* np.convolve (mode 'full') of two non-empty arrays
convolve(a, v) == Array([k \in 1..(Len(a) + Len(v) - 1) |-> convSum(a, v, k, 1, Zero)])

\* np.convolve(np.polyder(p), [1, 0]): T * dS/dT.  np.convolve raises
\* ValueError for an empty first argument (p has a single coefficient).
tau_ok(p) == Len(polyder(p)) > 0
p_taut(p) == convolve(polyder(p), <<One, Zero>>)

\* quad(lambda T: polyval(Sum, Th) - polyval(Sum, T), Tc, Th): the integrand
\* is a polynomial in T, the integral is taken from its antiderivative
quad_diff_of(Sum, PP, Tc, Th) ==
    Fsub(Fmul(polyval(Sum, Th), Fsub(Th, Tc)), Fsub(polyval(PP, Th), polyval(PP, Tc)))

quad_diff(Sum, Tc, Th) == quad_diff_of(Sum, polyint(Sum), Tc, Th)

k_min == Dec(1, 5)

safe_polyval_k(p, T) == Fmax(polyval(p, T), k_min)

\* quad of the floored conductivity: composite Simpson rule on four panels
\* (exact while the floor is inactive and the polynomial is at most cubic)
SimpsonWeights == <<1, 4, 2, 4, 1>>

RECURSIVE simpson_from(_, _, _, _, _)
\* acc + the sum over the nodes i, i+1, ... of weight * k(T1 + (i - 1) * h)
simpson_from(p, T1, h, i, acc) ==
    IF i > Len(SimpsonWeights) \/ acc = NaN THEN acc
    ELSE simpson_from(p, T1, h, i + 1,
                      Fadd(acc, Fmul(FromInt(SimpsonWeights[i]),
                                     safe_polyval_k(p, Fadd(T1, Fmul(FromInt(i - 1), h))))))

simpson_sum(p, T1, h) == simpson_from(p, T1, h, 1, Zero)

safe_polyint_k(p, T1, T2) ==
    Fdiv(Fmul(Fsub(T2, T1), simpson_sum(p, T1, Fdiv(Fsub(T2, T1), FromInt(4)))), FromInt(12))

(***************************************************************************)
(* Text.  A text is the sequence of its characters.                        *)
(***************************************************************************)
DigitChars == <<"0", "1", "2", "3", "4", "5", "6", "7", "8", "9">>
IsDigit(ch) == \E d \in 1..10 : DigitChars[d] = ch
DigitVal(ch) == (CHOOSE d \in 1..10 : DigitChars[d] = ch) - 1
IsSpace(ch) == ch \in {" ", "\t", "\n", "\r"}
IsSign(ch) == ch \in {"-", "+"}

\* is character i of t there, and equal to ch
At(t, i, ch) == i >= 1 /\ i <= Len(t) /\ t[i] = ch

\* the least element of a non-empty set of positions
Leftmost(hits) == CHOOSE i \in hits : \A j \in hits : i <= j

\* the first position >= i that holds no white space (regex \s*)
SkipWs(t, i) ==
    IF i > Len(t) THEN i
    ELSE Leftmost({j \in i..(Len(t) + 1) : j > Len(t) \/ ~IsSpace(t[j])})

\* the first position >= i that holds no digit
ScanDigits(t, i) ==
    IF i > Len(t) THEN i
    ELSE Leftmost({j \in i..(Len(t) + 1) : j > Len(t) \/ ~IsDigit(t[j])})

RECURSIVE DigitsVal(_, _, _, _)
\* the number written by the digits t[i..j-1]
DigitsVal(t, i, j, acc) ==
    IF i >= j THEN acc ELSE DigitsVal(t, i + 1, j, acc * 10 + DigitVal(t[i]))

\* x * 10^k
Scale10(v, k) ==
    IF k >= 0 THEN Fmul(v, FromInt(10^k)) ELSE Fdiv(v, FromInt(10^(0 - k)))

\* the digit runs of a number literal that starts at i0: the integer part
\* is t[i0..i1-1], the fraction's digits end before i2, and the digits of an
\* exponent written at i2 are t[j1..j2-1]
DigitRunsExp(t, i1, i2, j1) == [i1 |-> i1, i2 |-> i2, j1 |-> j1, j2 |-> ScanDigits(t, j1)]

DigitRunsFrac(t, i1, i2) ==
    DigitRunsExp(t, i1, i2, IF i2 + 1 <= Len(t) /\ IsSign(t[i2 + 1]) THEN i2 + 2 ELSE i2 + 1)

DigitRunsInt(t, i1) ==
    DigitRunsFrac(t, i1, IF At(t, i1, ".") THEN ScanDigits(t, i1 + 1) ELSE i1)

DigitRuns(t, i0) == DigitRunsInt(t, ScanDigits(t, i0))

\* the value of the literal t with digit runs d, or its rejection
pyfloat_of(t, i0, d) ==
    LET hasdot == At(t, d.i1, ".")
        nfrac == IF hasdot THEN d.i2 - (d.i1 + 1) ELSE 0
        hasexp == At(t, d.i2, "e") \/ At(t, d.i2, "E")
        mant == DigitsVal(t, i0, d.i1, 0) * 10^nfrac
                + (IF hasdot THEN DigitsVal(t, d.i1 + 1, d.i2, 0) ELSE 0)
        ex == IF hasexp
              THEN Signed(IF At(t, d.i2 + 1, "-") THEN 0 - 1 ELSE 1, DigitsVal(t, d.j1, d.j2, 0))
              ELSE 0
        ok == /\ (d.i1 - i0) + nfrac >= 1
              /\ hasexp => d.j2 > d.j1
              /\ (IF hasexp THEN d.j2 ELSE d.i2) = Len(t) + 1
    IN  IF ok THEN [ok |-> TRUE,
                    v |-> Scale10(Signed(IF At(t, 1, "-") THEN 0 - 1 ELSE 1, FromInt(mant)),
                                  ex - nfrac)]
        ELSE [ok |-> FALSE, v |-> NaN]

pyfloat_from(t, i0) == pyfloat_of(t, i0, DigitRuns(t, i0))

\* Python float(str) on a token without white space:
\* [sign] digits [. digits] [(e|E) [sign] digits], at least one digit
pyfloat(t) == pyfloat_from(t, IF Len(t) >= 1 /\ IsSign(t[1]) THEN 2 ELSE 1)

\* str.replace(ch, '')
Remove(t, ch) == LET keep(c) == c # ch IN SelectSeq(t, keep)
\* str.replace(a, b) for single characters
Replace(t, a, b) == Array([i \in 1..Len(t) |-> IF t[i] = a THEN b ELSE t[i]])

RECURSIVE LStrip(_)
LStrip(t) == IF Len(t) > 0 /\ IsSpace(t[1]) THEN LStrip(Tail(t)) ELSE t
RECURSIVE RStrip(_)
RStrip(t) == IF Len(t) > 0 /\ IsSpace(t[Len(t)]) THEN RStrip(SubSeq(t, 1, Len(t) - 1)) ELSE t
\* str.strip()
Strip(t) == RStrip(LStrip(t))

\* the first position >= i that holds white space
ScanWord(t, i) ==
    IF i > Len(t) THEN i
    ELSE Leftmost({j \in i..(Len(t) + 1) : j > Len(t) \/ IsSpace(t[j])})

\* the positions at which a maximal run of non-space characters starts
WordStarts(t) == {i \in 1..Len(t) : ~IsSpace(t[i]) /\ (i = 1 \/ IsSpace(t[i - 1]))}

\* the k-th of the positions
Nth(hits, k) == CHOOSE i \in hits : Cardinality({j \in hits : j < i}) = k - 1

\* the runs that start at the positions
WordsAt(t, starts) ==
    Array([k \in 1..Cardinality(starts) |->
             SubSeq(t, Nth(starts, k), ScanWord(t, Nth(starts, k)) - 1)])

\* str.split(): the maximal runs of non-space characters
Split(t) == WordsAt(t, WordStarts(t))

\* float(x) for every x of toks
Floats(toks) == Array([i \in 1..Len(toks) |-> pyfloat(toks[i])])

\* the list of the values, or the ValueError of a bad token
FloatsOrError(vals) ==
    IF \A i \in 1..Len(vals) : vals[i].ok
    THEN [err |-> "none", arr |-> Array([i \in 1..Len(vals) |-> vals[i].v])]
    ELSE [err |-> "ValueError", arr |-> <<>>]

\* [float(x) for x in body.replace(',', ' ').split()]; ValueError on a bad token
FloatList(body) == FloatsOrError(Floats(Split(Replace(body, ",", " "))))
(***************************************************************************)
(* extract_data_from_text: the four regular expressions, matched by hand   *)
(***************************************************************************)
IsNumClass(ch) == IsDigit(ch) \/ ch \in {"-", ".", "e", "E"}

\* the end of the maximal run [-\d\.eE]* from position i
ScanNumClass(t, i) ==
    IF i > Len(t) THEN i
    ELSE Leftmost({j \in i..(Len(t) + 1) : j > Len(t) \/ ~IsNumClass(t[j])})

\* the end of the maximal run [^\]]* from position i
ScanBody(t, i) ==
    IF i > Len(t) THEN i
    ELSE Leftmost({j \in i..(Len(t) + 1) : j > Len(t) \/ t[j] = "]"})

HasPrefixAt(t, i, w) ==
    /\ i + Len(w) - 1 <= Len(t)
    /\ \A j \in 1..Len(w) : t[i + j - 1] = w[j]

\* \[([^\]]+)\] at position i: the body's bounds, or lo = 0
BracketTo(t, i, e) ==
    IF At(t, i, "[") /\ e > i + 1 /\ At(t, e, "]") THEN [lo |-> i + 1, hi |-> e - 1]
    ELSE [lo |-> 0, hi |-> 0]

BracketAt(t, i) == BracketTo(t, i, ScanBody(t, i + 1))

\* position after "varname\s*=\s*" matched at i, or 0
AfterEq(t, i, varname) ==
    IF HasPrefixAt(t, i, varname) /\ At(t, SkipWs(t, i + Len(varname)), "=")
    THEN SkipWs(t, SkipWs(t, i + Len(varname)) + 1)
    ELSE 0

\* no match
NoMatch == [lo |-> 0, hi |-> 0, f1 |-> 0, f2 |-> 0]

\* the match whose bracket is m, its factor t[f1..f2], when ok
MatchOf(ok, m, f1, f2) ==
    IF ok /\ m.lo # 0 THEN [lo |-> m.lo, hi |-> m.hi, f1 |-> f1, f2 |-> f2] ELSE NoMatch

\* scale, from the end b of the factor that starts at a, and the position c of the star
MatchScaleStar(t, a, b, c) == MatchOf(b > a /\ At(t, c, "*"), BracketAt(t, SkipWs(t, c + 1)), a, b - 1)
MatchScale(t, a, b) == MatchScaleStar(t, a, b, SkipWs(t, b))

\* the match after "varname\s*=\s*", which ends before a
MatchAfterEq(t, a, enc) ==
    IF a = 0 THEN NoMatch
    ELSE IF enc = "scale" THEN MatchScale(t, a, ScanNumClass(t, a))
    ELSE IF enc = "reciprocal"
         THEN MatchOf(HasPrefixAt(t, a, <<"1", ".", "/">>), BracketAt(t, SkipWs(t, a + 3)), 0, 0)
    ELSE IF enc = "negation" THEN MatchOf(At(t, a, "-"), BracketAt(t, SkipWs(t, a + 1)), 0, 0)
    ELSE MatchOf(TRUE, BracketAt(t, a), 0, 0)

\* the match of one encoding's expression at start position i ([lo |-> 0] if none)
\* scale:       varname\s*=\s*([-\d\.eE]+)\s*\*\s*\[([^\]]+)\]
\* reciprocal:  varname\s*=\s*1\./\s*\[([^\]]+)\]
\* negation:    varname\s*=\s*-\s*\[([^\]]+)\]
\* literal:     varname\s*=\s*\[([^\]]+)\]
MatchAt(t, i, varname, enc) == MatchAfterEq(t, AfterEq(t, i, varname), enc)

SearchAmong(t, varname, enc, hits) ==
    IF hits = {} THEN NoMatch ELSE MatchAt(t, Leftmost(hits), varname, enc)

\* re.search: the leftmost start position at which the expression matches
Search(t, varname, enc) ==
    SearchAmong(t, varname, enc, {i \in 1..Len(t) : MatchAt(t, i, varname, enc).lo # 0})

\* a decoding that returns the values of the list whatever the encoding
Decoded_as_literal(body, factor, enc) ==
    IF body.err # "none" THEN [kind |-> "raise", err |-> "ValueError", enc |-> enc, arr |-> <<>>]
    ELSE [kind |-> "array", err |-> "none", enc |-> enc, arr |-> body.arr]

\* the array returned for the list body of a match of encoding enc
Decoded(body, factor, enc) ==
    IF enc = "scale" /\ ~factor.ok THEN [kind |-> "raise", err |-> "ValueError", enc |-> enc, arr |-> <<>>]
    ELSE IF body.err # "none" THEN [kind |-> "raise", err |-> "ValueError", enc |-> enc, arr |-> <<>>]
    ELSE [kind |-> "array", err |-> "none", enc |-> enc,
          arr |-> Array([k \in 1..Len(body.arr) |->
                           IF enc = "scale" THEN Fmul(body.arr[k], factor.v)
                           ELSE IF enc = "reciprocal" THEN Fdiv(One, body.arr[k])
                           ELSE IF enc = "negation" THEN Fneg(body.arr[k])
                           ELSE body.arr[k]])]

\* the value returned for a match m of encoding enc
Decode(t, m, enc) ==
    Decoded(FloatList(SubSeq(t, m.lo, m.hi)),
            IF enc = "scale" THEN pyfloat(SubSeq(t, m.f1, m.f2)) ELSE [ok |-> TRUE, v |-> One],
            enc)

\* a cascade that tries the literal encoding before the other three
extract_from_literal_first(txt, varname) ==
    IF Search(txt, varname, "literal").lo # 0
    THEN Decode(txt, Search(txt, varname, "literal"), "literal")
    ELSE IF Search(txt, varname, "scale").lo # 0
    THEN Decode(txt, Search(txt, varname, "scale"), "scale")
    ELSE IF Search(txt, varname, "reciprocal").lo # 0
    THEN Decode(txt, Search(txt, varname, "reciprocal"), "reciprocal")
    ELSE IF Search(txt, varname, "negation").lo # 0
    THEN Decode(txt, Search(txt, varname, "negation"), "negation")
    ELSE [kind |-> "None", err |-> "none", enc |-> "none", arr |-> <<>>]

\* the searches in the order of the source, on the text without its line
\* ends and semicolons
extract_from(txt, varname) ==
    IF Search(txt, varname, "scale").lo # 0
    THEN Decode(txt, Search(txt, varname, "scale"), "scale")
    ELSE IF Search(txt, varname, "reciprocal").lo # 0
    THEN Decode(txt, Search(txt, varname, "reciprocal"), "reciprocal")
    ELSE IF Search(txt, varname, "negation").lo # 0
    THEN Decode(txt, Search(txt, varname, "negation"), "negation")
    ELSE IF Search(txt, varname, "literal").lo # 0
    THEN Decode(txt, Search(txt, varname, "literal"), "literal")
    ELSE [kind |-> "None", err |-> "none", enc |-> "none", arr |-> <<>>]

extract_data_from_text(txt0, varname) == extract_from(Remove(Remove(txt0, "\n"), ";"), varname)

(***************************************************************************)
(* np.polyfit and eval                                                     *)
(***************************************************************************)
RECURSIVE SumSeq(_, _, _)
\* (a NaN sum stays NaN)
SumSeq(a, i, acc) == IF i > Len(a) \/ acc = NaN THEN acc ELSE SumSeq(a, i + 1, Fadd(acc, a[i]))

Fsum(a) == SumSeq(a, 1, Zero)


\* the line of slope a through the point of the means
LineThrough(xm, ym, a) == [a |-> a, b |-> Fsub(ym, Fmul(a, xm))]

LinFitAbout(x, y, xm, ym) ==
    LineThrough(xm, ym,
        Fdiv(Fsum(Array([i \in 1..Len(x) |-> Fmul(Fsub(x[i], xm), Fsub(y[i], ym))])),
             Fsum(Array([i \in 1..Len(x) |-> Fsq(Fsub(x[i], xm))]))))

\* the least-squares line through (x, y): slope and intercept
LinFit(x, y) ==
    LinFitAbout(x, y, Fdiv(Fsum(x), FromInt(Len(x))), Fdiv(Fsum(y), FromInt(Len(x))))

\* do the points lie within tol of the line f
Near(x, y, f, tol) ==
    \A i \in 1..Len(x) : Fle(Fabs(Fsub(y[i], Fadd(Fmul(f.a, x[i]), f.b))), tol)

\* do the points lie on their least-squares line, up to rounding
OnLine(x, y) ==
    Near(x, y, LinFit(x, y),
         Fdiv(Fsum(Array([i \in 1..Len(y) |-> Fabs(y[i])])), FromInt(2^8)))

\* the coefficients of the line f as a polynomial of degree deg
LinePoly(f, deg) ==
    Array([i \in 1..(deg + 1) |-> IF i = deg THEN f.a ELSE IF i = deg + 1 THEN f.b ELSE Zero])

\* np.polyfit(x, y, deg).  TypeError for an empty x or for x, y of different
\* lengths.  Otherwise the least-squares polynomial of degree deg; the model
\* covers tables of more than deg points that follow a straight line, for
\* which that polynomial is the line (leading coefficients 0).
polyfit(x, y, deg) ==
    CASE Len(x) = 0 \/ Len(x) # Len(y) -> [err |-> "TypeError", poly |-> <<>>]
      [] Len(x) = Len(y) /\ Len(x) > deg /\ OnLine(x, y) ->
            [err |-> "none", poly |-> LinePoly(LinFit(x, y), deg)]

\* the end of a number literal starting at i (i itself if there is none)
ScanNumberOf(t, i, d) ==
    IF d.i1 = i THEN i
    ELSE IF (At(t, d.i2, "e") \/ At(t, d.i2, "E")) /\ d.j2 > d.j1 THEN d.j2 ELSE d.i2

ScanNumber(t, i) == ScanNumberOf(t, i, DigitRuns(t, i))

\* a parse result: the value v of what ends before position i, if ok
Read(ok, v, i) == [ok |-> ok, v |-> v, i |-> i]

FactorTo(t, i, j) ==
    IF j > i THEN Read(TRUE, pyfloat(SubSeq(t, i, j - 1)).v, j) ELSE Read(FALSE, NaN, i)

\* factor := number | T | t
Factor(t, i, T) ==
    IF At(t, i, "T") \/ At(t, i, "t") THEN Read(TRUE, T, i + 1)
    ELSE FactorTo(t, i, ScanNumber(t, i))

RECURSIVE TermRest(_, _, _, _)
RECURSIVE TermTimes(_, _, _, _)
\* term := factor ('*' factor)*
TermRest(t, i, T, acc) ==
    IF At(t, i, "*") THEN TermTimes(t, T, acc, Factor(t, i + 1, T))
    ELSE Read(TRUE, acc, i)

\* the term continued by the factor f
TermTimes(t, T, acc, f) == IF f.ok THEN TermRest(t, f.i, T, Fmul(acc, f.v)) ELSE f

TermFrom(t, T, f) == IF f.ok THEN TermRest(t, f.i, T, f.v) ELSE f
Term(t, i, T) == TermFrom(t, T, Factor(t, i, T))

RECURSIVE ExprRest(_, _, _, _)
RECURSIVE ExprPlus(_, _, _, _, _)
\* expr := ['-'] term (('+' | '-') term)*
ExprRest(t, i, T, acc) ==
    IF At(t, i, "+") \/ At(t, i, "-") THEN ExprPlus(t, T, acc, t[i], Term(t, i + 1, T))
    ELSE Read(i = Len(t) + 1, acc, i)

\* the expression continued by the sign op and the term f
ExprPlus(t, T, acc, op, f) ==
    IF f.ok THEN ExprRest(t, f.i, T, IF op = "+" THEN Fadd(acc, f.v) ELSE Fsub(acc, f.v))
    ELSE f

ExprFrom(t, T, neg, f) ==
    IF f.ok THEN ExprRest(t, f.i, T, IF neg THEN Fneg(f.v) ELSE f.v) ELSE f

\* eval(expr, {'T': x, 't': x}) for the arithmetic expressions of the grammar
\* above; eval raises SyntaxError for a text that is no expression
eval(t, T) == ExprFrom(t, T, At(t, 1, "-"), Term(t, IF At(t, 1, "-") THEN 2 ELSE 1, T))

\* np.linspace(300, 900, 13)
xs == Array([i \in 1..13 |-> FromInt(300 + 50 * (i - 1))])

(***************************************************************************)
(* parse_input                                                             *)
(***************************************************************************)
Contains(t, ch) == \E i \in 1..Len(t) : t[i] = ch

NameX(varname) == CASE varname = "S" -> <<"T", "s">>
                    [] varname = "k" -> <<"T", "k">>
                    [] varname = "rho" -> <<"T", "r">>
NameY(varname) == CASE varname = "S" -> <<"s", "_", "t">>
                    [] varname = "k" -> <<"k", "_", "t">>
                    [] varname = "rho" -> <<"r", "_", "t">>

\* the outcome of parse_input: the coefficient vector (err = "none") or the
\* exception; named says whether the exception's message names varname, via
\* which branch returned
Parsed(err, named, via, poly) == [err |-> err, named |-> named, via |-> via, poly |-> poly]


\* what np.polyfit returned or raised
ParsedFit(fit, via) == Parsed(fit.err, FALSE, via, fit.poly)

\* the pair branch, line 313
parse_pair(arrx, arry, deg) ==
    IF arrx.kind = "raise" THEN Parsed(arrx.err, FALSE, "none", <<>>)
    ELSE IF arry.kind = "raise" THEN Parsed(arry.err, FALSE, "none", <<>>)
    ELSE ParsedFit(polyfit(arrx.arr, arry.arr, deg), "pair")

\* the list branch, line 315
parse_list(lst) == Parsed(lst.err, FALSE, "list", lst.arr)

\* the expression branch, lines 317-320, ys the values of eval at xs
parse_expr(ys, deg) ==
    IF \A i \in 1..13 : ys[i].ok
    THEN ParsedFit(polyfit(xs, Array([i \in 1..13 |-> ys[i].v]), deg), "expr")
    ELSE Parsed("SyntaxError", FALSE, "expr", <<>>)

\* lines 312-321, on the stripped text and the two arrays of lines 304-311
parse_from(txt, arrx, arry, deg) ==
    IF arrx.kind = "raise" \/ arry.kind = "raise" \/ (arrx.kind = "array" /\ arry.kind = "array")
    THEN parse_pair(arrx, arry, deg)
    ELSE IF At(txt, 1, "[") /\ At(txt, Len(txt), "]")
         THEN parse_list(FloatList(Remove(SubSeq(txt, 2, Len(txt) - 1), ";")))
    ELSE IF (Contains(txt, "T") \/ Contains(txt, "t")) /\ ~Contains(txt, "=")
         THEN parse_expr(Array([i \in 1..13 |-> eval(txt, xs[i])]), deg)
    ELSE Parsed("ValueError", TRUE, "none", <<>>)

NoArray == [kind |-> "None", err |-> "none", enc |-> "none", arr |-> <<>>]

parse_stripped(txt, varname, deg) ==
    IF varname \in {"S", "k", "rho"}
    THEN parse_from(txt, extract_data_from_text(txt, NameX(varname)),
                    extract_data_from_text(txt, NameY(varname)), deg)
    ELSE parse_from(txt, NoArray, NoArray, deg)

parse_input(txt0, varname, deg) == parse_stripped(Strip(txt0), varname, deg)

(***************************************************************************)
(* scipy.optimize.fsolve                                                   *)
(*                                                                         *)
(* fsolve(func, x0) returns the last iterate and, kept by MINPACK and      *)
(* dropped by every caller's [0], the status ier (1: converged).  The      *)
(* model looks for a sign change of func between Tc + 1 and SolveHi and    *)
(* bisects it down to two neighbouring numbers; without one, or when func  *)
(* is NaN on the way, the solve has not converged: x0 comes back and ier   *)
(* is not 1.  A residual that is already zero at x0 ends the solve at x0.  *)
(* The residuals are selected by name.                                     *)
(***************************************************************************)
SolveHi == FromInt(4096)
Midpoint(lo, hi) == (lo + hi) \div 2


(***************************************************************************)
(* The integrals of a leg and the residuals of the single leg              *)
(***************************************************************************)
\* R* of a leg: (1 / alpha) * (1 / dt) * RengP1, and zero when alpha or the
\* temperature difference is zero
R_star_single(RengP1, alpha, dt) ==
    IF Fne(alpha, Zero) /\ Fne(dt, Zero)
    THEN Fmul(Fmul(Fdiv(One, alpha), Fdiv(One, dt)), RengP1)
    ELSE Zero

\* polyval(Sum, Th) - polyval(Sum, Tc)
Seng(Sum, Tc, Th) == Fsub(polyval(Sum, Th), polyval(Sum, Tc))

\* the terms of the heat balance that do not depend on the load: peltier is
\* dt * SengP * Th * S(Th) - SengP * int_taut, joule is
\* int_rt + dt^2 * gamma_c_h / L
LegHeat_single(c, Th, dt, SengP, int_taut, int_rt) ==
    [dt |-> dt,
     SengP |-> SengP,
     KengP |-> safe_polyint_k(c.p_kt, c.Tc, Th),
     RengP1 |-> Fadd(Seng(polyint(c.p_rt), c.Tc, Th),
                     Fdiv(Fmul(dt, Fadd(c.gamma_c_h, c.gamma_c_c)), c.L)),
     int_taut |-> int_taut,
     peltier |-> Fsub(Fmul(Fmul(Fmul(dt, SengP), Th), polyval(c.p_st, Th)),
                      Fmul(SengP, int_taut)),
     joule |-> Fadd(int_rt, Fdiv(Fmul(Fsq(dt), c.gamma_c_h), c.L))]

\* the integrals of the leg between c.Tc and Th, as run_calc_single, its
\* sc_eq and the two heat balances of the single leg compute them
LegTerms_single(c, Th) ==
    LegHeat_single(c, Th, Fsub(Th, c.Tc), Seng(polyint(c.p_st), c.Tc, Th),
                   quad_diff(polyint(p_taut(c.p_st)), c.Tc, Th),
                   quad_diff(polyint(c.p_rt), c.Tc, Th))

\* den_sc of sc_eq, t the terms at Th_sc
den_sc_single(t) ==
    Fsub(Fadd(t.KengP, Fdiv(t.peltier, t.RengP1)),
         Fdiv(Fmul(Fsq(t.SengP), t.joule), Fsq(t.RengP1)))

\* den of run_calc_single and den_m of the heat balances, at load ratio m
den_m_single(t, m) ==
    Fsub(Fadd(t.KengP, Fdiv(Fmul(Fdiv(One, Fadd(One, m)), t.peltier), t.RengP1)),
         Fdiv(Fmul(Fmul(Fdiv(One, Fsq(Fadd(One, m))), Fsq(t.SengP)), t.joule),
              Fsq(t.RengP1)))

\* an sc_eq without its guard
sc_eq_single_at_unguarded(c, Th_sc, t) == Fsub(Fmul(c.alpha, den_sc_single(t)), c.Qin)

\* sc_eq of run_calc_single, t the integrals at Th_sc
sc_eq_single_at(c, Th_sc, t) ==
    IF Fle(Fsub(Th_sc, c.Tc), Zero) THEN c.Qin
    ELSE Fsub(Fmul(c.alpha, den_sc_single(t)), c.Qin)

sc_eq_single(c, Th_sc) == sc_eq_single_at(c, Th_sc, LegTerms_single(c, Th_sc))

\* an open-circuit residual that keeps the Peltier and Joule terms
oc_eq_single_at_loaded(c, Th, t) ==
    IF Fgt(Th, c.Tc) THEN Fsub(Fmul(c.alpha, den_sc_single(t)), c.Qin)
    ELSE c.Qin

\* the open-circuit residual of on_calc, single leg (the lambda of line 788);
\* t.KengP is safe_polyint_k(p_kt, Tc, Th)
oc_eq_single_at(c, Th, t) ==
    IF Fgt(Th, c.Tc) THEN Fsub(Fmul(c.alpha, t.KengP), c.Qin)
    ELSE c.Qin

oc_eq_single(c, Th) == oc_eq_single_at(c, Th, LegTerms_single(c, Th))

\* heat_balance of _solve_Th_I_at_m_single, t the integrals at Th
heat_balance_single_at(c, Th, t) ==
    IF Fle(Th, Fadd(c.Tc, Dec(1, 6))) THEN Fneg(c.Qin)
    ELSE Fsub(Fmul(c.alpha, den_m_single(t, c.m)), c.Qin)

heat_balance_single(c, Th) == heat_balance_single_at(c, Th, LegTerms_single(c, Th))

\* the residual of the kind, single leg
Residual_single(kind, c, Th, t) ==
    CASE kind = "sc" -> sc_eq_single_at(c, Th, t)
      [] kind = "oc" -> oc_eq_single_at(c, Th, t)
      [] kind = "hb" -> heat_balance_single_at(c, Th, t)

(***************************************************************************)
(* Residuals of the couple                                                 *)
(***************************************************************************)
LegResist(c, Th, dt, Sum_prt, Sum_nrt) ==
    [RengP1 |-> Fadd(Seng(Sum_prt, c.Tc, Th), Fdiv(Fmul(dt, Fadd(c.rc_ph, c.rc_pc)), c.L)),
     RengN1 |-> Fadd(Seng(Sum_nrt, c.Tc, Th), Fdiv(Fmul(dt, Fadd(c.rc_nh, c.rc_nc)), c.L)),
     int_prt |-> quad_diff(Sum_prt, c.Tc, Th),
     int_nrt |-> quad_diff(Sum_nrt, c.Tc, Th)]

\* the integrals of both legs between c.Tc and Th, as run_calc_Couple, its
\* sc_eq and the two heat balances of the couple compute them
LegTerms(c, Th) ==
    [dt |-> Fsub(Th, c.Tc),
     SengP |-> Seng(polyint(c.p_st), c.Tc, Th),
     SengN |-> Seng(polyint(c.n_st), c.Tc, Th),
     KengP |-> safe_polyint_k(c.p_kt, c.Tc, Th),
     KengN |-> safe_polyint_k(c.n_kt, c.Tc, Th),
     int_ptaut |-> quad_diff(polyint(p_taut(c.p_st)), c.Tc, Th),
     int_ntaut |-> quad_diff(polyint(p_taut(c.n_st)), c.Tc, Th)]
    @@ LegResist(c, Th, Fsub(Th, c.Tc), polyint(c.p_rt), polyint(c.n_rt))

\* the numerators and resistances shared by denP and denN, t the LegTerms at
\* Th; S_diff is SengP - SengN
DenTermsOf(c, t, Th, beta, S_diff) ==
    [beta |-> beta,
     S_diff |-> S_diff,
     pelP |-> Fsub(Fmul(Fmul(Fmul(S_diff, Th), polyval(c.p_st, Th)), t.dt),
                   Fmul(S_diff, t.int_ptaut)),
     pelN |-> Fsub(Fmul(Fmul(Fmul(S_diff, Th), polyval(c.n_st, Th)), t.dt),
                   Fmul(S_diff, t.int_ntaut)),
     jouP |-> Fadd(t.int_prt, Fdiv(Fmul(Fsq(t.dt), c.rc_ph), c.L)),
     jouN |-> Fadd(t.int_nrt, Fdiv(Fmul(Fsq(t.dt), c.rc_nh), c.L)),
     RP |-> Fadd(t.RengP1, Fmul(Fdiv(One, beta), t.RengN1)),
     RN |-> Fadd(Fmul(beta, t.RengP1), t.RengN1)]

DenTerms(c, t, Th, beta) == DenTermsOf(c, t, Th, beta, Fsub(t.SengP, t.SengN))

\* the terms of both kinds at Th
BothTermsOf(c, t, Th, beta) == [t |-> t, d |-> DenTerms(c, t, Th, beta)]
BothTerms(c, Th, beta) == BothTermsOf(c, LegTerms(c, Th), Th, beta)

\* alphaP * (denP_sc + beta * denN_sc) - Qin; the last term of denN_sc is
\* written with SengP of the enclosing function (the value at Tmax, c.SengP),
\* line 491
sc_balance_Couple(c, t, d) ==
    LET denP_sc == Fsub(Fadd(t.KengP, Fdiv(d.pelP, d.RP)),
                        Fdiv(Fmul(Fsq(d.S_diff), d.jouP), Fsq(d.RP)))
        denN_sc == Fsub(Fsub(t.KengN, Fdiv(d.pelN, d.RN)),
                        Fdiv(Fmul(Fsq(Fsub(c.SengP, t.SengN)), d.jouN), Fsq(d.RN)))
    IN  Fsub(Fmul(c.alphaP, Fadd(denP_sc, Fmul(c.beta, denN_sc))), c.Qin)

\* sc_eq of run_calc_Couple, q the terms at Th_sc
sc_eq_Couple_at(c, Th_sc, q) ==
    IF Fle(Fsub(Th_sc, c.Tc), Zero) THEN c.Qin
    ELSE sc_balance_Couple(c, q.t, q.d)

sc_eq_Couple(c, Th_sc) == sc_eq_Couple_at(c, Th_sc, BothTerms(c, Th_sc, c.beta))

\* eq_oc_Couple of on_calc; q.t.KengP and q.t.KengN are
\* safe_polyint_k(p_kt, Tc, Th) and safe_polyint_k(n_kt, Tc, Th)
eq_oc_Couple_at(c, Th, q) ==
    IF Fle(Th, c.Tc) THEN c.Qin
    ELSE Fsub(Fadd(Fmul(c.alphaP, q.t.KengP), Fmul(c.alphaN, q.t.KengN)), c.Qin)

eq_oc_Couple(c, Th) == eq_oc_Couple_at(c, Th, BothTerms(c, Th, c.beta))

\* alphaP * (denP + beta * denN) - Qin at load ratio m, as both heat balances
\* of the couple write it
balance_Couple(c, t, d, m) ==
    LET den_common == Fmul(Fadd(One, m), d.RP)
        den_common_sq == Fmul(Fsq(Fadd(One, m)), Fsq(d.RP))
        denP == Fsub(Fadd(t.KengP, Fdiv(d.pelP, den_common)),
                     Fdiv(Fmul(Fsq(d.S_diff), d.jouP), den_common_sq))
        denN == Fsub(Fsub(t.KengN, Fdiv(d.pelN, Fmul(Fadd(One, m), d.RN))),
                     Fdiv(Fmul(Fsq(d.S_diff), d.jouN), Fmul(Fsq(Fadd(One, m)), Fsq(d.RN))))
    IN  Fsub(Fmul(c.alphaP, Fadd(denP, Fmul(c.beta, denN))), c.Qin)

\* heat_balance of _solve_Th_I_at_m_Couple, q the terms at Th
heat_balance_Couple_at(c, Th, q) ==
    IF Fle(Th, Fadd(c.Tc, Dec(1, 6))) THEN Fneg(c.Qin)
    ELSE balance_Couple(c, q.t, q.d, c.m)

heat_balance_Couple(c, Th) == heat_balance_Couple_at(c, Th, BothTerms(c, Th, c.beta))

\* the residual of the kind, couple
Residual_Couple(kind, c, Th, q) ==
    CASE kind = "sc" -> sc_eq_Couple_at(c, Th, q)
      [] kind = "oc" -> eq_oc_Couple_at(c, Th, q)
      [] kind = "hb" -> heat_balance_Couple_at(c, Th, q)

\* the function handed to fsolve: kind is "sc" for the sc_eq of the kernel,
\* "oc" for the open-circuit residual of on_calc and "hb" for the heat_balance
\* of the operating-point solver; c.mode tells the single leg from the couple
Residual(kind, c, Th) ==
    CASE c.mode = "single" -> Residual_single(kind, c, Th, LegTerms_single(c, Th))
      [] c.mode = "Couple" -> Residual_Couple(kind, c, Th, BothTerms(c, Th, c.beta))

\* the result of fsolve: the root and ier = 1, or x0 and ier = 5
Solved(x) == [x |-> x, ier |-> 1]
NotSolved(x0) == [x |-> x0, ier |-> 5]

\* of the two ends of a bracket, the one with the smaller residual
Closest(b) == IF AbsI(b.flo) <= AbsI(b.fhi) THEN b.lo ELSE b.hi

Bracket(lo, hi, flo, fhi) == [lo |-> lo, hi |-> hi, flo |-> flo, fhi |-> fhi]

\* the bracket b halved at x, where the residual fx has the sign of b.flo
\* or that of b.fhi
Halved(b, x, fx) ==
    IF (fx < 0) = (b.flo < 0) THEN Bracket(x, b.hi, fx, b.fhi)
    ELSE Bracket(b.lo, x, b.flo, fx)

RECURSIVE BisectTh(_, _, _, _)
RECURSIVE fsolve_mid(_, _, _, _, _, _)
\* the bisection of the bracket b; f(b.lo) = b.flo and f(b.hi) = b.fhi are
\* finite, nonzero, of opposite sign
BisectTh(kind, c, x0, b) ==
    fsolve_mid(kind, c, x0, b, Midpoint(b.lo, b.hi), Residual(kind, c, Midpoint(b.lo, b.hi)))

\* its step, from the residual fx at the midpoint x of b
fsolve_mid(kind, c, x0, b, x, fx) ==
    CASE b.hi - b.lo <= 1 -> Solved(Closest(b))
      [] ~IsFin(fx) -> NotSolved(x0)
      [] fx = 0 -> Solved(x)
      [] OTHER -> BisectTh(kind, c, x0, Halved(b, x, fx))

\* the search from the residuals f at x0, lo and hi
fsolve_from(kind, c, x0, lo, hi, f) ==
    CASE f[1] = 0 -> Solved(x0)
      [] ~IsFin(lo) \/ lo >= hi \/ ~IsFin(f[2]) \/ ~IsFin(f[3]) -> NotSolved(x0)
      [] f[2] = 0 -> Solved(lo)
      [] f[3] = 0 -> Solved(hi)
      [] (f[2] < 0) = (f[3] < 0) -> NotSolved(x0)
      [] OTHER -> BisectTh(kind, c, x0, Bracket(lo, hi, f[2], f[3]))

fsolve_between(kind, c, x0, lo, hi) ==
    fsolve_from(kind, c, x0, lo, hi,
                Array([k \in 1..3 |-> Residual(kind, c, <<x0, lo, hi>>[k])]))

fsolve(kind, c, x0) == fsolve_between(kind, c, x0, Fadd(c.Tc, One), SolveHi)
(***************************************************************************)
(* Core computation, single leg                                            *)
(***************************************************************************)
Raise(e) == [err |-> e]

\* m and eff from a0, lines 366-370 and 447-451: a1 and a2 are a0 less one
\* and two times effc * jh / R1 / deltaT
EfficiencyAt(a0, effc, a2, m) ==
    [m |-> m, eff |-> Fdiv(Fmul(effc, Fsub(m, One)), Fadd(Fmul(a0, m), a2))]

Efficiency(a0, effc, jh, R1, deltaT, ZT_eng) ==
    EfficiencyAt(a0, effc,
                 Fsub(a0, Fdiv(Fdiv(Fmul(Fmul(Two, effc), jh), R1), deltaT)),
                 Fsqrt(Fadd(One,
                            Fdiv(Fmul(ZT_eng,
                                      Fsub(a0, Fdiv(Fdiv(Fmul(effc, jh), R1), deltaT))),
                                 effc))))

\* the three fsolve calls of a run, in the order the code makes them: sc_eq
\* in the kernel, the open-circuit residual in on_calc, heat_balance in the
\* operating-point solver; and where each starts
SolveKinds == <<"sc", "oc", "hb">>
StartOf(kind, c, Tmax) ==
    CASE kind = "sc" -> Fadd(c.Tc, FromInt(20))
      [] kind = "oc" -> Tmax
      [] kind = "hb" -> Fadd(c.Tc, FromInt(50))

Solves(c, Tmax) ==
    Array([k \in DOMAIN SolveKinds |->
              fsolve(SolveKinds[k], c, StartOf(SolveKinds[k], c, Tmax))])

\* the arguments of a single-leg computation
SingleArgs(p_st, p_kt, p_rt, Qin, Tc, L, gamma_c_h, gamma_c_c) ==
    [mode |-> "single", p_st |-> p_st, p_kt |-> p_kt, p_rt |-> p_rt, Qin |-> Qin,
     Tc |-> Tc, L |-> L, gamma_c_h |-> gamma_c_h, gamma_c_c |-> gamma_c_c]

\* a geometry solved from the balance at m = 0 instead of at the optimum m
Geometry_single_at_sc(c, t, e) ==
    [c |-> c @@ [alpha |-> Fdiv(c.Qin, den_sc_single(t)), m |-> e.m],
     t |-> t, e |-> e]

\* lines 372-377: alpha from the heat balance at Tmax and m; g.c is the
\* arguments with alpha and m, g.t the integrals between Tc and Tmax, g.e the
\* optimum load ratio and the efficiency
Geometry_single(c, t, e) ==
    [c |-> c @@ [alpha |-> Fdiv(c.Qin, den_m_single(t, e.m)), m |-> e.m],
     t |-> t, e |-> e]

\* lines 355-370, t the integrals between Tc and Tmax
single_at_Tmax(c, Tmax, t, effc) ==
    Geometry_single(c, t,
        Efficiency(Fsub(Fdiv(Fmul(polyval(c.p_st, Tmax), t.dt), t.SengP),
                        Fmul(Fdiv(t.int_taut, Fmul(t.SengP, t.dt)), effc)),
                   effc, t.joule, t.RengP1, t.dt,
                   Fdiv(Fdiv(Fmul(Fsq(t.SengP), t.dt), t.KengP), t.RengP1)))

\* lines 350-377 of run_calc_single
geometry_single(c, Tmax) ==
    single_at_Tmax(c, Tmax, LegTerms_single(c, Tmax), Fdiv(Fsub(Tmax, c.Tc), Tmax))

\* the result of run_calc_single from the R* at Tmax and at Th_sc
single_result_of(g, sol, u, R_star_opt, R_star_sc) ==
    [err |-> "none", eff |-> g.e.eff, m_opt |-> g.e.m, alpha |-> g.c.alpha,
     Vopt |-> Fabs(Fdiv(Fmul(g.t.SengP, g.e.m), Fadd(One, g.e.m))),
     Th_sc |-> sol.x,
     Isc |-> IF Fne(R_star_sc, Zero) THEN Fabs(Fdiv(u.SengP, R_star_sc)) ELSE Zero,
     R_star_opt |-> R_star_opt, R_L_opt |-> Fmul(g.e.m, R_star_opt),
     ier_sc |-> sol.ier]

\* lines 378-407: what run_calc_single returns, sol the solution of sc_eq and
\* u the integrals between Tc and Th_sc
single_result(g, sol, u) ==
    single_result_of(g, sol, u, R_star_single(g.t.RengP1, g.c.alpha, g.t.dt),
                     R_star_single(u.RengP1, g.c.alpha, u.dt))

single_at_sc(g, sol) == single_result(g, sol, LegTerms_single(g.c, sol.x))

\* line 399
single_solved(g) == single_at_sc(g, fsolve("sc", g.c, StartOf("sc", g.c, 0)))

\* what run_calc_single raises.  Tc, Tmax, L are Python floats: dividing by a
\* zero Tmax or L raises ZeroDivisionError; every other division is numpy's.
raises_single(c, Tmax) ==
    IF ~tau_ok(c.p_st) THEN "ValueError"
    ELSE IF Tmax = 0 \/ c.L = 0 THEN "ZeroDivisionError"
    ELSE "none"

run_calc_single_on(c, Tmax) ==
    IF raises_single(c, Tmax) # "none" THEN Raise(raises_single(c, Tmax))
    ELSE single_solved(geometry_single(c, Tmax))

run_calc_single(p_st, p_kt, p_rt, Qin, Tc, Tmax, L, gamma_c_h, gamma_c_c) ==
    run_calc_single_on(SingleArgs(p_st, p_kt, p_rt, Qin, Tc, L, gamma_c_h, gamma_c_c),
                       Tmax)

(***************************************************************************)
(* Core computation, couple                                                *)
(***************************************************************************)
\* R* of a couple: (RengP1 / alphaP + RengN1 / alphaN) / dt, and zero when the
\* temperature difference or one of the two alphas is zero
R_star_Couple(RengP1, RengN1, alphaP, alphaN, dt) ==
    IF Feq(dt, Zero) \/ Feq(alphaP, Zero) \/ Feq(alphaN, Zero) THEN Zero
    ELSE Fdiv(Fadd(Fdiv(RengP1, alphaP), Fdiv(RengN1, alphaN)), dt)

\* the arguments of a couple computation
CoupleArgs(Qin, Tc, L, rc_nh, rc_nc, rc_ph, rc_pc, p_st, p_kt, p_rt, n_st, n_kt, n_rt) ==
    [mode |-> "Couple", p_st |-> p_st, p_kt |-> p_kt, p_rt |-> p_rt,
     n_st |-> n_st, n_kt |-> n_kt, n_rt |-> n_rt, Qin |-> Qin, Tc |-> Tc,
     L |-> L, rc_nh |-> rc_nh, rc_nc |-> rc_nc, rc_ph |-> rc_ph, rc_pc |-> rc_pc]

\* lines 459-461: g.c is the arguments with alphaP, alphaN, beta, m and the
\* SengP at Tmax, g.t and g.d the terms at Tmax, g.e the optimum load ratio
\* and the efficiency
Geometry_Couple(c, t, d, e, alphaP) ==
    [c |-> c @@ [alphaP |-> alphaP, alphaN |-> Fmul(d.beta, alphaP),
                 beta |-> d.beta, m |-> e.m, SengP |-> t.SengP],
     t |-> t, d |-> d, e |-> e]

\* lines 453-458, e the optimum load ratio and the efficiency
Couple_with_m(c, t, d, e) ==
    LET denP == Fsub(Fadd(t.KengP, Fdiv(Fdiv(d.pelP, Fadd(One, e.m)), d.RP)),
                     Fdiv(Fdiv(Fmul(Fsq(d.S_diff), d.jouP), Fsq(Fadd(One, e.m))),
                          Fsq(d.RP)))
        denN == Fsub(Fsub(t.KengN, Fdiv(Fdiv(d.pelN, Fadd(One, e.m)), d.RN)),
                     Fdiv(Fdiv(Fmul(Fsq(d.S_diff), d.jouN), Fsq(Fadd(One, e.m))),
                          Fsq(d.RN)))
    IN  Geometry_Couple(c, t, d, e, Fdiv(c.Qin, Fadd(denP, Fmul(d.beta, denN))))

\* lines 438-451, d the terms with the optimum beta
Couple_with_beta(c, Th, t, d, effc) ==
    Couple_with_m(c, t, d,
        Efficiency(Fsub(Fdiv(Fmul(Fsub(polyval(c.p_st, Th), polyval(c.n_st, Th)), t.dt),
                             d.S_diff),
                        Fmul(Fdiv(Fsub(t.int_ptaut, t.int_ntaut), Fmul(d.S_diff, t.dt)),
                             effc)),
                   effc,
                   Fadd(Fadd(t.int_prt, Fmul(d.beta, t.int_nrt)),
                        Fdiv(Fmul(Fsq(t.dt), Fadd(c.rc_ph, Fmul(d.beta, c.rc_nh))), c.L)),
                   Fadd(t.RengP1, Fmul(d.beta, t.RengN1)),
                   t.dt,
                   Fdiv(Fmul(Fsq(d.S_diff), t.dt),
                        Fsq(Fadd(Fsqrt(Fmul(t.KengP, t.RengP1)),
                                 Fsqrt(Fmul(t.KengN, t.RengN1)))))))

\* a beta with the root taken of the numerator only
beta_opt_misplaced(t) ==
    IF Fne(Fmul(t.RengP1, t.KengN), Zero)
    THEN Fdiv(Fsqrt(Fmul(t.RengN1, t.KengP)), Fmul(t.RengP1, t.KengN))
    ELSE One

\* line 430: beta, and 1 when RengP1 * KengN is zero
beta_opt(t) ==
    IF Fne(Fmul(t.RengP1, t.KengN), Zero)
    THEN Fsqrt(Fdiv(Fmul(t.RengN1, t.KengP), Fmul(t.RengP1, t.KengN)))
    ELSE One

\* lines 416-430, t the integrals between Tc and Th
Couple_at_Th(c, Th, t) ==
    Couple_with_beta(c, Th, t, DenTerms(c, t, Th, beta_opt(t)), Fdiv(t.dt, Th))

\* lines 410-461 of run_calc_Couple
geometry_Couple(c, Th) == Couple_at_Th(c, Th, LegTerms(c, Th))

\* the result of run_calc_Couple from the R* at Tmax and at Th_sc
Couple_result_of(g, sol, u, R_star_opt, R_star_sc) ==
    [err |-> "none", eff |-> g.e.eff, m_opt |-> g.e.m,
     alpha |-> Fadd(g.c.alphaN, g.c.alphaP), beta |-> g.d.beta,
     alphaP |-> g.c.alphaP, alphaN |-> g.c.alphaN, Pmax |-> Fmul(g.c.Qin, g.e.eff),
     Vopt |-> Fdiv(Fmul(g.d.S_diff, g.e.m), Fadd(One, g.e.m)),
     Th_sc |-> sol.x,
     Isc |-> IF Fne(R_star_sc, Zero) THEN Fdiv(Fsub(u.SengP, u.SengN), R_star_sc)
             ELSE Zero,
     R_star_opt |-> R_star_opt, R_L_opt |-> Fmul(g.e.m, R_star_opt),
     ier_sc |-> sol.ier]

\* lines 462-510: what run_calc_Couple returns, sol the solution of sc_eq and
\* u the integrals between Tc and Th_sc
Couple_result(g, sol, u) ==
    Couple_result_of(g, sol, u,
                     R_star_Couple(g.t.RengP1, g.t.RengN1, g.c.alphaP, g.c.alphaN, g.t.dt),
                     R_star_Couple(u.RengP1, u.RengN1, g.c.alphaP, g.c.alphaN, u.dt))

Couple_at_sc(g, sol) == Couple_result(g, sol, LegTerms(g.c, sol.x))

\* line 495
Couple_solved(g) == Couple_at_sc(g, fsolve("sc", g.c, StartOf("sc", g.c, 0)))

\* what run_calc_Couple raises.  Tc, Th, L are Python floats: dividing by a
\* zero Th or L raises ZeroDivisionError; every other division is numpy's.
raises_Couple(c, Th) ==
    IF ~tau_ok(c.p_st) \/ ~tau_ok(c.n_st) THEN "ValueError"
    ELSE IF Th = 0 \/ c.L = 0 THEN "ZeroDivisionError"
    ELSE "none"

run_calc_Couple_on(c, Th) ==
    IF raises_Couple(c, Th) # "none" THEN Raise(raises_Couple(c, Th))
    ELSE Couple_solved(geometry_Couple(c, Th))

run_calc_Couple(Qin, Tc, Th, L, rc_nh, rc_nc, rc_ph, rc_pc,
                p_st, p_kt, p_rt, n_st, n_kt, n_rt) ==
    run_calc_Couple_on(CoupleArgs(Qin, Tc, L, rc_nh, rc_nc, rc_ph, rc_pc,
                                  p_st, p_kt, p_rt, n_st, n_kt, n_rt), Th)

(***************************************************************************)
(* Units                                                                   *)
(*                                                                         *)
(* The unit tokens are written in ASCII: degC for the degree Celsius       *)
(* token, ohm.m2, ohm.cm2 and ohm.mm2 for the three resistivity tokens.    *)
(***************************************************************************)
Conv(err, v) == [err |-> err, v |-> v]

unit_convert_temp(val, unit) ==
    LET f == pyfloat(val)
    IN  IF unit = "K" THEN (IF f.ok THEN Conv("none", f.v) ELSE Conv("ValueError", NaN))
        ELSE IF unit = "degC"
             THEN (IF f.ok THEN Conv("none", Fadd(f.v, Dec(27315, 2))) ELSE Conv("ValueError", NaN))
        ELSE Conv("ValueError", NaN)

unit_convert_length(val, unit) ==
    LET f == pyfloat(val)
    IN  IF unit = "m" THEN (IF f.ok THEN Conv("none", f.v) ELSE Conv("ValueError", NaN))
        ELSE IF unit = "mm"
             THEN (IF f.ok THEN Conv("none", Fdiv(f.v, FromInt(1000))) ELSE Conv("ValueError", NaN))
        ELSE Conv("ValueError", NaN)

unit_convert_resist(val, unit) ==
    LET f == pyfloat(val)
    IN  IF ~f.ok THEN Conv("ValueError", NaN)
        ELSE IF unit = "ohm.m2" THEN Conv("none", f.v)
        ELSE IF unit = "ohm.cm2" THEN Conv("none", Fmul(f.v, Dec(1, 4)))
        ELSE IF unit = "ohm.mm2" THEN Conv("none", Fmul(f.v, Dec(1, 6)))
        ELSE Conv("ValueError", NaN)

(***************************************************************************)
(* Operating point at a given load ratio, single leg                       *)
(***************************************************************************)
\* lines 917-924: the current at the solution sol, t the integrals there
op_single_at(c, sol, t) ==
    LET R_star == R_star_single(t.RengP1, c.alpha, t.dt)
    IN  [Th_opt |-> sol.x,
         I |-> IF Fne(R_star, Zero)
               THEN Fabs(Fdiv(t.SengP, Fmul(R_star, Fadd(One, c.m)))) ELSE Zero,
         ier |-> sol.ier]

op_single(c, sol) == op_single_at(c, sol, LegTerms_single(c, sol.x))

solve_Th_I_single(c) == op_single(c, fsolve("hb", c, StartOf("hb", c, 0)))

_solve_Th_I_at_m_single(m, Tc, Qin, Lmax, gamma_c_h, gamma_c_c, s_poly, k_poly, r_poly, alpha) ==
    solve_Th_I_single(SingleArgs(s_poly, k_poly, r_poly, Qin, Tc, Lmax, gamma_c_h, gamma_c_c)
                      @@ [alpha |-> alpha, m |-> m])

(***************************************************************************)
(* Operating point at a given load ratio, couple                           *)
(***************************************************************************)
\* lines 958-968: the current at the solution sol, t the integrals there
op_Couple_at(c, sol, t) ==
    LET R_star == R_star_Couple(t.RengP1, t.RengN1, c.alphaP, c.alphaN, t.dt)
    IN  [Th_opt |-> sol.x,
         I |-> IF Fne(R_star, Zero)
               THEN Fdiv(Fsub(t.SengP, t.SengN), Fmul(R_star, Fadd(One, c.m))) ELSE Zero,
         ier |-> sol.ier]

op_Couple(c, sol) == op_Couple_at(c, sol, LegTerms(c, sol.x))

solve_Th_I_Couple(c) == op_Couple(c, fsolve("hb", c, StartOf("hb", c, 0)))

_solve_Th_I_at_m_Couple(m, beta, Tc, Qin, Lmax, rc_nh, rc_nc, rc_ph, rc_pc,
                        p_s, p_k, p_r, n_s, n_k, n_r, alphaP) ==
    solve_Th_I_Couple(CoupleArgs(Qin, Tc, Lmax, rc_nh, rc_nc, rc_ph, rc_pc,
                                 p_s, p_k, p_r, n_s, n_k, n_r)
                      @@ [alphaP |-> alphaP, alphaN |-> Fmul(alphaP, beta),
                          beta |-> beta, m |-> m])

(***************************************************************************)
(* Load curves                                                             *)
(***************************************************************************)
Tiny == Fmul(Dec(1, 6), Dec(1, 6))
BracketLo == Tiny
BracketHi == FromInt(10^7)
NumSamples == 50

\* np.linspace(a, b, NumSamples), step the distance of two samples
linspace_by(a, b, step) ==
    Array([i \in 1..NumSamples |->
              IF i = NumSamples THEN b ELSE Fadd(Fmul(FromInt(i - 1), step), a)])

linspace(a, b) == linspace_by(a, b, Fdiv(Fsub(b, a), FromInt(NumSamples - 1)))

\* the leg of last_results under the names the single-leg residuals use
SingleCtx(p) ==
    SingleArgs(p.s_poly, p.k_poly, p.r_poly, p.Qin, p.Tc, p.Lmax, p.gamma_c_h, p.gamma_c_c)

\* the part of heat_balance_eq (single leg) that does not depend on m
hb_terms_single(p, Th) ==
    [cold |-> Fle(Th, Fadd(p.Tc, Dec(1, 6))), t |-> LegTerms_single(SingleCtx(p), Th)]

\* heat_balance_eq(m, Th) of _generate_single_leg_curve_data, q the terms at Th
heat_balance_eq_single(p, q, m) ==
    IF Flt(m, Zero) THEN p.Qin
    ELSE IF q.cold THEN Fneg(p.Qin)
    ELSE IF Flt(Fabs(q.t.RengP1), Tiny) THEN Fsub(Fmul(p.alpha, q.t.KengP), p.Qin)
    ELSE Fsub(Fmul(p.alpha, den_m_single(q.t, m)), p.Qin)

\* the legs of last_results under the names the couple residuals use
CoupleCtx(p) ==
    CoupleArgs(p.Qin, p.Tc, p.Lmax, p.rc_nh, p.rc_nc, p.rc_ph, p.rc_pc,
               p.p_s_poly, p.p_k_poly, p.p_r_poly, p.n_s_poly, p.n_k_poly, p.n_r_poly)

\* the part of heat_balance_eq (couple) that does not depend on m
hb_terms_Couple(p, Th) ==
    [cold |-> Fle(Th, Fadd(p.Tc, Dec(1, 6)))] @@ BothTerms(CoupleCtx(p), Th, p.beta)

\* heat_balance_eq(m, Th) of _generate_Couple_curve_data, q the terms at Th
heat_balance_eq_Couple(p, q, m) ==
    IF Flt(m, Zero) THEN p.Qin
    ELSE IF q.cold THEN Fneg(p.Qin)
    ELSE IF Flt(Fabs(q.d.RP), Tiny)
         THEN Fsub(Fmul(p.alphaP, Fadd(q.t.KengP, Fmul(p.beta, q.t.KengN))), p.Qin)
    ELSE balance_Couple(p, q.t, q.d, m)

HeatBalance(mode, p, q, m) ==
    CASE mode = "single" -> heat_balance_eq_single(p, q, m)
      [] mode = "Couple" -> heat_balance_eq_Couple(p, q, m)

\* the result of root_scalar
Root(m) == [converged |-> TRUE, root |-> m]
NoRoot == [converged |-> FALSE, root |-> NaN]

RECURSIVE BisectM(_, _, _, _)
RECURSIVE brentq_mid(_, _, _, _, _, _)
\* the bisection of the bracket b of load ratios
BisectM(mode, p, q, b) ==
    brentq_mid(mode, p, q, b, Midpoint(b.lo, b.hi),
               HeatBalance(mode, p, q, Midpoint(b.lo, b.hi)))

\* its step, from the residual fm at the midpoint m of b
brentq_mid(mode, p, q, b, m, fm) ==
    CASE b.hi - b.lo <= 1 -> Root(Closest(b))
      [] IsNaN(fm) -> NoRoot
      [] fm = 0 -> Root(m)
      [] OTHER -> BisectM(mode, p, q, Halved(b, m, fm))

\* the search from the residuals f at the ends lo and hi of the bracket
brentq_from(mode, p, q, lo, hi, f) ==
    CASE IsNaN(f[1]) \/ IsNaN(f[2]) -> NoRoot
      [] (f[1] > 0 /\ f[2] > 0) \/ (f[1] < 0 /\ f[2] < 0) -> NoRoot
      [] f[1] = 0 -> Root(lo)
      [] f[2] = 0 -> Root(hi)
      [] OTHER -> BisectM(mode, p, q, Bracket(lo, hi, f[1], f[2]))

\* root_scalar(heat_balance_eq, args=(Th,), method='brentq', bracket=[1e-12, 1e7]):
\* ValueError (converged FALSE here) when the residual is NaN or has one sign
\* at both ends of the bracket; otherwise a root, located by bisection
brentq(mode, p, q) ==
    brentq_from(mode, p, q, BracketLo, BracketHi,
                Array([k \in 1..2 |-> HeatBalance(mode, p, q, <<BracketLo, BracketHi>>[k])]))

\* a loop body without the test of sol.converged
KeepSample_unconverged(converged, dt, R_star) ==
    ~Fle(dt, Zero) /\ ~Fle(R_star, Zero)

\* the decision of the loop body to keep a sample
KeepSample(converged, dt, R_star) ==
    converged /\ ~Fle(dt, Zero) /\ ~Fle(R_star, Zero)

\* what one pass of the loop computes from the current I
SampleOf(p, Th_val, sol, dt, R_star, I) ==
    [th |-> Th_val, converged |-> sol.converged, dt |-> dt,
     rstar |-> R_star, kept |-> KeepSample(sol.converged, dt, R_star),
     v_load |-> Fmul(Fmul(I, sol.root), R_star),
     eta |-> Fmul(Fdiv(Fmul(I, Fmul(Fmul(I, sol.root), R_star)), p.Qin), FromInt(100)),
     m |-> sol.root, i |-> I]

SampleSingleAt(p, Th_val, q, sol, dt, R_star) ==
    SampleOf(p, Th_val, sol, dt, R_star,
             Fabs(Fdiv(q.t.SengP, Fmul(R_star, Fadd(One, sol.root)))))

SampleSingleWith(p, Th_val, q, sol) ==
    SampleSingleAt(p, Th_val, q, sol, Fsub(Th_val, p.Tc),
                   R_star_single(q.t.RengP1, p.alpha, Fsub(Th_val, p.Tc)))

SampleSingleOn(p, Th_val, q) == SampleSingleWith(p, Th_val, q, brentq("single", p, q))

\* one pass of the loop body of _generate_single_leg_curve_data
SampleSingle(p, Th_val) == SampleSingleOn(p, Th_val, hb_terms_single(p, Th_val))

SampleCoupleAt(p, Th_val, q, sol, dt, R_star) ==
    SampleOf(p, Th_val, sol, dt, R_star,
             Fdiv(Fsub(q.t.SengP, q.t.SengN), Fmul(R_star, Fadd(One, sol.root))))

SampleCoupleWith(p, Th_val, q, sol) ==
    SampleCoupleAt(p, Th_val, q, sol, Fsub(Th_val, p.Tc),
                   R_star_Couple(q.t.RengP1, q.t.RengN1, p.alphaP, Fmul(p.alphaP, p.beta),
                                 Fsub(Th_val, p.Tc)))

SampleCoupleOn(p, Th_val, q) == SampleCoupleWith(p, Th_val, q, brentq("Couple", p, q))

\* one pass of the loop body of _generate_Couple_curve_data
SampleCouple(p, Th_val) == SampleCoupleOn(p, Th_val, hb_terms_Couple(p, Th_val))

Sample(mode, p, Th_val) ==
    CASE mode = "single" -> SampleSingle(p, Th_val)
      [] mode = "Couple" -> SampleCouple(p, Th_val)

\* six series of which the current lacks its first element
Series_unpaired(th, v_load, eta, m, i, rstar) ==
    [th |-> th, v_load |-> v_load, eta |-> eta, m |-> m,
     i |-> IF Len(i) > 0 THEN Tail(i) ELSE i, rstar |-> rstar]

\* the six series of a curve
Series(th, v_load, eta, m, i, rstar) ==
    [th |-> th, v_load |-> v_load, eta |-> eta, m |-> m, i |-> i, rstar |-> rstar]

\* a sweep returned as it is, without the two end points
Pad_without_ends(p, r) == r

\* the closing of the curve after the sweep: the short-circuit point in front
\* and the open-circuit point behind, when at least one sample was kept
Pad(p, r) ==
    IF Len(r.th) >= 1
    THEN Series(<<p.Th_sc>> \o r.th \o <<p.Th_oc>>,
                <<Zero>> \o r.v_load \o <<p.Voc>>,
                <<Zero>> \o r.eta \o <<Zero>>,
                <<Zero>> \o r.m \o <<FromInt(10^9)>>,
                <<p.Isc>> \o r.i \o <<Zero>>,
                <<p.R_star_opt>> \o r.rstar \o <<p.R_star_opt>>)
    ELSE r

IsKept(x) == x.kept

\* one series of the samples that were kept
Column(kept, f) == Array([n \in 1..Len(kept) |-> kept[n][f]])

curve_of_kept(p, sweep, kept) ==
    [data |-> Pad(p, Series(Column(kept, "th"), Column(kept, "v_load"),
                            Column(kept, "eta"), Column(kept, "m"),
                            Column(kept, "i"), Column(kept, "rstar"))),
     sweep |-> sweep]

Reverse(s) == Array([n \in 1..Len(s) |-> s[Len(s) + 1 - n]])

\* a curve that holds the kept samples last swept first
curve_of_sweep_reversed(p, sweep) == curve_of_kept(p, sweep, Reverse(SelectSeq(sweep, IsKept)))

curve_of_sweep(p, sweep) == curve_of_kept(p, sweep, SelectSeq(sweep, IsKept))

curve_over(p, Th_range) ==
    curve_of_sweep(p, Array([n \in 1..NumSamples |-> Sample(p.mode, p, Th_range[n])]))

\* _generate_single_leg_curve_data and _generate_Couple_curve_data: the sweep
\* over Th_range; sweep records every pass of the loop, data is what the
\* function returns
generate_curve_data(p) == curve_over(p, linspace(p.Th_sc, p.Th_oc))

curves_of(g) ==
    [op |-> "curves",
     msg |-> IF Len(g.data.v_load) < 3 THEN "Insufficient data points" ELSE "plot",
     sweep |-> g.sweep, data |-> g.data]

\* the body of on_generate_curves after the test of last_results
curves_outcome(p) == curves_of(generate_curve_data(p))


(***************************************************************************)
(* _plot_curves: the curve at the fixed hot side Th = Tmax                 *)
(***************************************************************************)
eps == Fmul(Dec(1, 8), Dec(1, 8))

\* m / (1 + m)
LoadShare(m) == Fdiv(m, Fadd(One, m))

\* eta_dash at the load ratio m: bracket is the sum of the first three terms
\* less joule / max(denom_common, eps), with denom_common = dT * (1 + m) * R
eta_dash_at(m, dT, ZT_eng, seebeck, thomson, joule, R) ==
    Fmul(Fmax(Zero,
              Fdiv(LoadShare(m),
                   Fmax(Fsub(Fsub(Fadd(Fdiv(Fadd(One, m), Fadd(ZT_eng, eps)), seebeck),
                                  thomson),
                             Fdiv(joule, Fmax(Fmul(Fmul(dT, Fadd(One, m)), R), eps))),
                        eps))),
         FromInt(100))

\* a v_dash without the absolute value of the Seebeck integral
v_dash_signed(S_int, m) == Fmul(S_int, LoadShare(m))

\* v_dash at the load ratio m, S_int the Seebeck integral between Tc and Tmax
v_dash_at(S_int, m) == Fmul(Fabs(S_int), LoadShare(m))

\* the dictionary stored in _dash_curve_export, line 1255
dash_of(m_arr, Th_fix, dT, S_int, ZT_eng, seebeck, thomson, joule, R) ==
    [set |-> TRUE, m |-> m_arr,
     v |-> Array([n \in DOMAIN m_arr |-> v_dash_at(S_int, m_arr[n])]),
     eta |-> Array([n \in DOMAIN m_arr |->
                       eta_dash_at(m_arr[n], dT, ZT_eng, seebeck, thomson, joule, R)]),
     Th |-> Array([n \in DOMAIN m_arr |-> Th_fix])]

\* lines 1195-1216, t the integrals of the leg between Tc and Tmax and I_rho
\* the double integral of rho
dash_single_from(lr, m_arr, t, I_rho) ==
    dash_of(m_arr, lr.Tmax, t.dt, t.SengP,
            IF Fgt(t.KengP, Zero) /\ Fgt(t.RengP1, Zero)
            THEN Fdiv(Fmul(Fsq(t.SengP), t.dt), Fmul(t.KengP, t.RengP1)) ELSE Zero,
            Fdiv(Fmul(lr.Tmax, polyval(lr.s_poly, lr.Tmax)), Fadd(t.SengP, eps)),
            Fdiv(Fdiv(t.int_taut, Fadd(t.dt, eps)), Fadd(t.SengP, eps)),
            Fadd(I_rho, Fdiv(Fmul(Fsq(t.dt), lr.gamma_c_h), Fmax(lr.Lmax, eps))),
            Fadd(t.RengP1, Zero))

dash_single(lr, m_arr) ==
    dash_single_from(lr, m_arr, LegTerms_single(SingleCtx(lr), lr.Tmax),
                     quad_diff(polyint(lr.r_poly), lr.Tc, lr.Tmax))

\* max(x, 0) of Python
Floor0(x) == IF Fgt(Zero, x) THEN Zero ELSE x

\* lines 1218-1252, t the integrals of both legs between Tc and Tmax, dS the
\* difference of the Seebeck integrals and denom_Z the denominator of ZT_eng
dash_Couple_from(lr, m_arr, t, dS, denom_Z) ==
    dash_of(m_arr, lr.Tmax, t.dt, dS,
            IF Fgt(denom_Z, Zero) THEN Fdiv(Fmul(Fsq(dS), t.dt), denom_Z) ELSE Zero,
            Fdiv(Fmul(lr.Tmax, Fsub(polyval(lr.p_s_poly, lr.Tmax),
                                    polyval(lr.n_s_poly, lr.Tmax))),
                 Fadd(dS, eps)),
            Fdiv(Fdiv(Fsub(t.int_ptaut, t.int_ntaut), Fadd(t.dt, eps)), Fadd(dS, eps)),
            Fadd(Fadd(t.int_prt, Fmul(lr.beta, t.int_nrt)),
                 Fdiv(Fmul(Fsq(t.dt), Fadd(lr.rc_ph, Fmul(lr.beta, lr.rc_nh))),
                      Fmax(lr.Lmax, eps))),
            Fadd(t.RengP1, Fmul(lr.beta, t.RengN1)))

dash_Couple_at(lr, m_arr, t) ==
    dash_Couple_from(lr, m_arr, t, Fsub(t.SengP, t.SengN),
                     Fsq(Fadd(Fsqrt(Fmul(Floor0(t.KengP), Floor0(t.RengP1))),
                              Fsqrt(Fmul(Floor0(t.KengN), Floor0(t.RengN1))))))

dash_Couple(lr, m_arr) == dash_Couple_at(lr, m_arr, LegTerms(CoupleCtx(lr), lr.Tmax))

\* _dash_curve_export before _plot_curves has set it
NoAttribute == [set |-> FALSE]

\* the try block of lines 1189-1255: the dictionary it builds from
\* last_results and data, and nothing unless Tmax > Tc and data['m'] has two
\* elements
dash_curve(lr, data) ==
    IF Fgt(Fsub(lr.Tmax, lr.Tc), Zero) /\ Len(data.m) >= 2
    THEN IF lr.mode = "single" THEN dash_single(lr, data.m) ELSE dash_Couple(lr, data.m)
    ELSE NoAttribute

\* line 1255: the attribute after _plot_curves, d what the try block built
stored_dash(before, d) == IF d.set THEN d ELSE before
(***************************************************************************)
(* on_calc: the body of the try block                                      *)
(***************************************************************************)
Failed(e, named) == [err |-> e, named |-> named]

\* lines 798-816: what the single-leg branch stores; rc is what
\* run_calc_single returns, oc the solution of the open-circuit residual, u
\* the integrals between Tc and Th_oc, op what _solve_Th_I_at_m_single
\* returns; the ier_* fields record the status of the three fsolve calls,
\* which the code does not keep
calc_single_done(c, Tmax, rc, oc, u, op) ==
    [err |-> "none", mode |-> "single",
     s_poly |-> c.p_st, k_poly |-> c.p_kt, r_poly |-> c.p_rt,
     Qin |-> c.Qin, Tc |-> c.Tc, Tmax |-> Tmax, Lmax |-> c.L,
     gamma_c_h |-> c.gamma_c_h, gamma_c_c |-> c.gamma_c_c,
     alpha |-> rc.alpha, m_opt |-> rc.m_opt, Th_sc |-> rc.Th_sc, Th_oc |-> oc.x,
     Voc |-> Fabs(u.SengP),
     eff |-> rc.eff, Vopt |-> rc.Vopt, Isc |-> rc.Isc,
     R_star_opt |-> rc.R_star_opt, R_L_opt |-> rc.R_L_opt,
     Th_opt |-> op.Th_opt, I_opt |-> op.I,
     ier_sc |-> rc.ier_sc, ier_oc |-> oc.ier, ier_opt |-> op.ier]

\* us holds the integrals between Tc and each of the three solutions
calc_single_at(g, Tmax, sols, us) ==
    calc_single_done(g.c, Tmax, single_result(g, sols[1], us[1]), sols[2], us[2],
                     op_single_at(g.c, sols[3], us[3]))

\* sols holds the solutions of the three fsolve calls: of run_calc_single
\* (line 399), of on_calc (line 788) and of _solve_Th_I_at_m_single (line 914)
calc_single_solved(g, Tmax, sols) ==
    calc_single_at(g, Tmax, sols,
                   Array([k \in DOMAIN sols |-> LegTerms_single(g.c, sols[k].x)]))

calc_single_geometry(g, Tmax) == calc_single_solved(g, Tmax, Solves(g.c, Tmax))

\* lines 785-797
calc_single_with(c, Tmax) ==
    CASE raises_single(c, Tmax) # "none" -> Failed(raises_single(c, Tmax), FALSE)
      [] OTHER -> calc_single_geometry(geometry_single(c, Tmax), Tmax)

\* lines 779-784: the three curves and the two contact resistivities
calc_single_parsed(s, k, r, gh, gc, Tmax, Tc, Qin, use_resist, Lmax) ==
    CASE s.err # "none" -> Failed(s.err, s.named)
      [] k.err # "none" -> Failed(k.err, k.named)
      [] r.err # "none" -> Failed(r.err, r.named)
      [] use_resist /\ gh.err # "none" -> Failed(gh.err, FALSE)
      [] use_resist /\ gc.err # "none" -> Failed(gc.err, FALSE)
      [] OTHER -> calc_single_with(SingleArgs(s.poly, k.poly, r.poly, Qin, Tc, Lmax,
                                     IF use_resist THEN gh.v ELSE Zero,
                                     IF use_resist THEN gc.v ELSE Zero),
                                Tmax)

\* the single-leg branch, lines 779-816; curves holds what parse_input makes
\* of the boxes S, k and rho
calc_single(f, curves, Tmax, Tc, Qin, use_resist, Lmax) ==
    calc_single_parsed(curves[1], curves[2], curves[3],
                       unit_convert_resist(f.gamma_h, f.gamma_h_unit),
                       unit_convert_resist(f.gamma_c, f.gamma_c_unit),
                       Tmax, Tc, Qin, use_resist, Lmax)

\* lines 842-861: what the couple branch stores; rc is what run_calc_Couple
\* returns, oc the solution of eq_oc_Couple, u the integrals between Tc and
\* Th_oc, op what _solve_Th_I_at_m_Couple returns
calc_Couple_done(c, Tmax, rc, oc, u, op) ==
    [err |-> "none", mode |-> "Couple",
     p_s_poly |-> c.p_st, p_k_poly |-> c.p_kt, p_r_poly |-> c.p_rt,
     n_s_poly |-> c.n_st, n_k_poly |-> c.n_kt, n_r_poly |-> c.n_rt,
     Qin |-> c.Qin, Tc |-> c.Tc, Tmax |-> Tmax, Lmax |-> c.L,
     rc_ph |-> c.rc_ph, rc_pc |-> c.rc_pc, rc_nh |-> c.rc_nh, rc_nc |-> c.rc_nc,
     alpha |-> rc.alpha, alphaP |-> rc.alphaP, alphaN |-> rc.alphaN, beta |-> rc.beta,
     m_opt |-> rc.m_opt, Th_sc |-> rc.Th_sc, Th_oc |-> oc.x,
     Voc |-> Fsub(u.SengP, u.SengN),
     eff |-> rc.eff, Pmax |-> rc.Pmax, Vopt |-> rc.Vopt, Isc |-> rc.Isc,
     R_star_opt |-> rc.R_star_opt, R_L_opt |-> rc.R_L_opt,
     Th_opt |-> op.Th_opt, I_opt |-> op.I,
     ier_sc |-> rc.ier_sc, ier_oc |-> oc.ier, ier_opt |-> op.ier]

\* us holds the integrals between Tc and each of the three solutions
calc_Couple_at(g, Tmax, sols, us) ==
    calc_Couple_done(g.c, Tmax, Couple_result(g, sols[1], us[1]), sols[2], us[2],
                     op_Couple_at(g.c, sols[3], us[3]))

\* sols holds the solutions of the three fsolve calls: of run_calc_Couple
\* (line 495), of on_calc (line 840) and of _solve_Th_I_at_m_Couple (line 955)
calc_Couple_solved(g, Tmax, sols) ==
    calc_Couple_at(g, Tmax, sols,
                   Array([k \in DOMAIN sols |-> LegTerms(g.c, sols[k].x)]))

calc_Couple_geometry(g, Tmax) == calc_Couple_solved(g, Tmax, Solves(g.c, Tmax))

\* lines 830-841
calc_Couple_with(c, Tmax) ==
    CASE raises_Couple(c, Tmax) # "none" -> Failed(raises_Couple(c, Tmax), FALSE)
      [] OTHER -> calc_Couple_geometry(geometry_Couple(c, Tmax), Tmax)

\* lines 818-829: the six curves and the four contact resistivities
calc_Couple_parsed(ps, pk, pr, ns, nk, nr, gph, gpc, gnh, gnc,
                   Tmax, Tc, Qin, use_resist, Lmax) ==
    CASE ps.err # "none" -> Failed(ps.err, ps.named)
      [] pk.err # "none" -> Failed(pk.err, pk.named)
      [] pr.err # "none" -> Failed(pr.err, pr.named)
      [] ns.err # "none" -> Failed(ns.err, ns.named)
      [] nk.err # "none" -> Failed(nk.err, nk.named)
      [] nr.err # "none" -> Failed(nr.err, nr.named)
      [] use_resist /\ gph.err # "none" -> Failed(gph.err, FALSE)
      [] use_resist /\ gpc.err # "none" -> Failed(gpc.err, FALSE)
      [] use_resist /\ gnh.err # "none" -> Failed(gnh.err, FALSE)
      [] use_resist /\ gnc.err # "none" -> Failed(gnc.err, FALSE)
      [] OTHER -> calc_Couple_with(CoupleArgs(Qin, Tc, Lmax,
                                     IF use_resist THEN gnh.v ELSE Zero,
                                     IF use_resist THEN gnc.v ELSE Zero,
                                     IF use_resist THEN gph.v ELSE Zero,
                                     IF use_resist THEN gpc.v ELSE Zero,
                                           ps.poly, pk.poly, pr.poly, ns.poly, nk.poly, nr.poly),
                                Tmax)

\* the couple branch, lines 818-861; curves holds what parse_input makes of
\* the boxes of the p leg and of the n leg
calc_Couple(f, curves, Tmax, Tc, Qin, use_resist, Lmax) ==
    calc_Couple_parsed(curves[1], curves[2], curves[3], curves[4], curves[5], curves[6],
                       unit_convert_resist(f.gamma_ph, f.gamma_ph_unit),
                       unit_convert_resist(f.gamma_pc, f.gamma_pc_unit),
                       unit_convert_resist(f.gamma_nh, f.gamma_nh_unit),
                       unit_convert_resist(f.gamma_nc, f.gamma_nc_unit),
                       Tmax, Tc, Qin, use_resist, Lmax)

calc_branch(mode, f, curves, Tmax, Tc, Qin, use_resist, Lmax) ==
    CASE mode = "single" -> calc_single(f, curves, Tmax, Tc, Qin, use_resist, Lmax)
      [] mode = "Couple" -> calc_Couple(f, curves, Tmax, Tc, Qin, use_resist, Lmax)

\* the boxes each branch reads, in the order it parses them, and the
\* property each holds
Boxes(mode) ==
    IF mode = "single" THEN <<"S", "k", "rho">>
    ELSE <<"p_S", "p_k", "p_rho", "n_S", "n_k", "n_rho">>
Property == <<"S", "k", "rho">>

\* parse_input(self.<box>.GetValue(), <property>) for every box of the mode;
\* GetValue returns the text of a multi-line box with its last line ended
parse_boxes(f, boxes) ==
    Array([i \in DOMAIN boxes |->
              parse_input(f[boxes[i]] \o <<"\n">>, Property[((i - 1) % 3) + 1], 4)])

\* an on_calc that converts the length entry whether or not the contact
\* resistance is enabled
calc_converted_reading(mode, f, Tmax, Tc, Qin, use_resist, L) ==
    CASE Tmax.err # "none" -> Failed(Tmax.err, FALSE)
      [] Tc.err # "none" -> Failed(Tc.err, FALSE)
      [] ~Qin.ok -> Failed("ValueError", FALSE)
      [] L.err # "none" -> Failed(L.err, FALSE)
      [] OTHER -> calc_branch(mode, f, parse_boxes(f, Boxes(mode)), Tmax.v, Tc.v, Qin.v,
                           use_resist, L.v)

\* the branch of the mode, with the converted values of the common fields
calc_converted(mode, f, Tmax, Tc, Qin, use_resist, L) ==
    CASE Tmax.err # "none" -> Failed(Tmax.err, FALSE)
      [] Tc.err # "none" -> Failed(Tc.err, FALSE)
      [] ~Qin.ok -> Failed("ValueError", FALSE)
      [] use_resist /\ L.err # "none" -> Failed(L.err, FALSE)
      [] OTHER -> calc_branch(mode, f, parse_boxes(f, Boxes(mode)), Tmax.v, Tc.v, Qin.v,
                           use_resist, IF use_resist THEN L.v ELSE One)

\* lines 771-861: what the try block stores in last_results, or the exception
calc_outcome(mode, f) ==
    calc_converted(mode, f, unit_convert_temp(f.Tmax, f.Tmax_unit),
                   unit_convert_temp(f.Tc, f.Tc_unit), pyfloat(f.Qin),
                   f.use_resist = "Yes", unit_convert_length(f.L, f.L_unit))

(***************************************************************************)
(* Pasted data                                                             *)
(*                                                                         *)
(* default_rawdata holds one temperature/value table per property, of 11   *)
(* to 15 points.  The tables here keep the encoding of each default (a     *)
(* literal, 1./[...], -1*[...] or 1e-5*[...] value array after its         *)
(* temperature array) with five points on a straight line, the tables      *)
(* polyfit is modelled for.                                                *)
(***************************************************************************)
raw_n_S ==
    <<"T", "s", "=", "[", "3", "0", "0", "\t", "3", "7", "5", "\t", "4", "5",
      "0", "\t", "5", "2", "5", "\t", "6", "0", "0", "]", ";", "\n", "s",
      "_", "t", "=", "-", "1", "*", "[", "1", ".", "8", "e", "-", "4", "\t",
      "2", ".", "1", "e", "-", "4", "\t", "2", ".", "4", "e", "-", "4", "\t",
      "2", ".", "7", "e", "-", "4", "\t", "3", "e", "-", "4", "]", ";">>

raw_n_k ==
    <<"T", "k", "=", "[", "3", "0", "0", " ", "3", "7", "5", " ", "4", "5",
      "0", " ", "5", "2", "5", " ", "6", "0", "0", "]", ";", "\n", "k", "_",
      "t", "=", "[", "1", ".", "3", " ", "1", ".", "2", " ", "1", ".", "1",
      " ", "1", ".", "0", " ", "0", ".", "9", "]", ";">>

raw_n_rho ==
    <<"T", "r", "=", "[", "3", "0", "0", " ", "3", "7", "5", " ", "4", "5",
      "0", " ", "5", "2", "5", " ", "6", "0", "0", "]", ";", "\n", "r", "_",
      "t", "=", "1", "e", "-", "5", "*", "[", "1", ".", "7", " ", "2", ".",
      "1", " ", "2", ".", "5", " ", "2", ".", "9", " ", "3", ".", "3", "]",
      ";">>

raw_p_S ==
    <<"T", "s", "=", "[", "3", "0", "0", " ", "3", "5", "0", " ", "4", "0",
      "0", " ", "4", "5", "0", " ", "5", "0", "0", "]", ";", "\n", "s", "_",
      "t", "=", "[", "1", ".", "8", "e", "-", "4", " ", "1", ".", "8", "5",
      "e", "-", "4", " ", "1", ".", "9", "e", "-", "4", " ", "1", ".", "9",
      "5", "e", "-", "4", " ", "2", "e", "-", "4", "]", ";">>

raw_p_k ==
    <<"T", "k", "=", "[", "3", "0", "0", " ", "3", "5", "0", " ", "4", "0",
      "0", " ", "4", "5", "0", " ", "5", "0", "0", "]", ";", "\n", "k", "_",
      "t", "=", "[", "1", ".", "3", " ", "1", ".", "2", "5", " ", "1", ".",
      "2", " ", "1", ".", "1", "5", " ", "1", ".", "1", "]", ";">>

raw_p_rho ==
    <<"T", "r", "=", "[", "3", "0", "0", " ", "3", "5", "0", " ", "4", "0",
      "0", " ", "4", "5", "0", " ", "5", "0", "0", "]", ";", "\n", "r", "_",
      "t", "=", "[", "1", ".", "1", "E", "-", "0", "5", " ", "1", ".", "2",
      "E", "-", "0", "5", " ", "1", ".", "3", "E", "-", "0", "5", " ", "1",
      ".", "4", "E", "-", "0", "5", " ", "1", ".", "5", "E", "-", "0", "5",
      "]", ";">>

raw_single_S ==
    <<"T", "s", "=", "[", "3", "0", "0", " ", "4", "5", "0", " ", "6", "0",
      "0", " ", "7", "5", "0", " ", "9", "0", "0", "]", ";", "\n", "s", "_",
      "t", "=", "[", "3", "E", "-", "0", "4", " ", "3", ".", "3", "E", "-",
      "0", "4", " ", "3", ".", "6", "E", "-", "0", "4", " ", "3", ".", "9",
      "E", "-", "0", "4", " ", "4", ".", "2", "E", "-", "0", "4", "]", ";">>

raw_single_k ==
    <<"T", "k", "=", "[", "3", "0", "0", " ", "4", "5", "0", " ", "6", "0",
      "0", " ", "7", "5", "0", " ", "9", "0", "0", "]", ";", "\n", "k", "_",
      "t", "=", "[", "1", ".", "0", " ", "0", ".", "9", " ", "0", ".", "8",
      " ", "0", ".", "7", " ", "0", ".", "6", "]", ";">>

raw_single_rho ==
    <<"T", "r", "=", "[", "3", "0", "0", " ", "4", "5", "0", " ", "6", "0",
      "0", " ", "7", "5", "0", " ", "9", "0", "0", "]", ";", "\n", "r", "_",
      "t", "=", "1", ".", "/", "[", "1", "0", "0", "0", " ", "1", "0", "0",
      "0", " ", "1", "0", "0", "0", " ", "1", "0", "0", "0", " ", "1", "0",
      "0", "0", "]", ";">>

default_rawdata ==
    [n |-> [S |-> raw_n_S, k |-> raw_n_k, rho |-> raw_n_rho],
     p |-> [S |-> raw_p_S, k |-> raw_p_k, rho |-> raw_p_rho],
     single |-> [S |-> raw_single_S, k |-> raw_single_k, rho |-> raw_single_rho]]

\* texts typed into the entries and the material boxes
txt_873 ==
    <<"8", "7", "3">>

txt_600 ==
    <<"6", "0", "0">>

txt_300 ==
    <<"3", "0", "0">>

txt_1 ==
    <<"1">>

txt_1E8 ==
    <<"1", "E", "-", "8">>

txt_0 ==
    <<"0">>

txt_497 ==
    <<"4", "9", "7">>

txt_326_85 ==
    <<"3", "2", "6", ".", "8", "5">>

coef_S ==
    <<"[", "0", " ", "2", "e", "-", "4", "]">>

coef_S_neg ==
    <<"[", "0", " ", "-", "2", "e", "-", "4", "]">>

coef_k ==
    <<"[", "0", " ", "1", ".", "5", "]">>

coef_k_low ==
    <<"[", "0", " ", "0", ".", "5", "]">>

coef_rho ==
    <<"[", "0", " ", "1", "e", "-", "5", "]">>

coef_rho_falling ==
    <<"[", "-", "1", "e", "-", "0", "7", " ", "4", "e", "-", "0", "5", "]">>

short_S ==
    <<"T", "s", "=", "[", "3", "0", "0", " ", "4", "0", "0", " ", "5", "0",
      "0", "]", ";", "\n", "s", "_", "t", "=", "[", "1", "e", "-", "4", " ",
      "2", "e", "-", "4", "]", ";">>

lone_k ==
    <<"T", "k", "=", "[", "3", "0", "0", " ", "4", "0", "0", " ", "5", "0",
      "0", "]", ";">>

(***************************************************************************)
(* The main frame (TEGFrame): the entries and boxes it reads               *)
(***************************************************************************)
MaterialKeys(mode) ==
    IF mode = "single" THEN {"S", "k", "rho"}
    ELSE {"n_S", "n_k", "n_rho", "p_S", "p_k", "p_rho"}

GammaKeys(mode) ==
    IF mode = "single" THEN {"gamma_h", "gamma_c"}
    ELSE {"gamma_nh", "gamma_nc", "gamma_ph", "gamma_pc"}

GammaUnitKeys(mode) ==
    IF mode = "single" THEN {"gamma_h_unit", "gamma_c_unit"}
    ELSE {"gamma_nh_unit", "gamma_nc_unit", "gamma_ph_unit", "gamma_pc_unit"}

\* the keys save_inputs writes and restore_inputs reads for a mode
Keys(mode) ==
    MaterialKeys(mode) \cup GammaKeys(mode) \cup GammaUnitKeys(mode)
    \cup {"Tmax", "Tmax_unit", "Tc", "Tc_unit", "Qin", "use_resist", "L", "L_unit"}

\* the second argument of each d.get(key, ...) of restore_inputs
Default(mode, key) ==
    CASE key \in {"S", "k", "rho"} -> default_rawdata.single[key]
      [] key = "n_S" -> default_rawdata.n.S
      [] key = "n_k" -> default_rawdata.n.k
      [] key = "n_rho" -> default_rawdata.n.rho
      [] key = "p_S" -> default_rawdata.p.S
      [] key = "p_k" -> default_rawdata.p.k
      [] key = "p_rho" -> default_rawdata.p.rho
      [] key = "Tmax" -> IF mode = "single" THEN txt_873 ELSE txt_600
      [] key = "Tc" -> txt_300
      [] key \in {"Tmax_unit", "Tc_unit"} -> "K"
      [] key = "Qin" -> txt_1
      [] key = "use_resist" -> "No"
      [] key = "L" -> txt_1
      [] key = "L_unit" -> "mm"
      [] key \in GammaKeys(mode) -> txt_1E8
      [] key \in GammaUnitKeys(mode) -> "ohm.m2"

\* an empty dict
EmptyDict == [key \in {} |-> ""]

\* d.get(key, default)
Get(d, key, default) == IF key \in DOMAIN d THEN d[key] ELSE default

\* save_inputs(mode): the cache after it, w what the entries and boxes hold
save_inputs(cache, mode, w) == [cache EXCEPT ![mode] = w]

\* restore_inputs(mode): what the entries and boxes hold after it
restore_inputs(cache, mode) ==
    LET d == cache[mode]
    IN  [key \in Keys(mode) |-> Get(d, key, Default(mode, key))]

(***************************************************************************)
(* The sheets of input the model fills in.  Each is the defaults of its    *)
(* mode with some entries retyped.                                         *)
(***************************************************************************)
NoCache == [single |-> EmptyDict, Couple |-> EmptyDict]
single_defaults == restore_inputs(NoCache, "single")
Couple_defaults == restore_inputs(NoCache, "Couple")

\* contact resistances on, Tmax in degrees Celsius
single_resist ==
    [single_defaults EXCEPT !.S = coef_S, !.k = coef_k, !.rho = coef_rho,
                            !.Tmax = txt_326_85, !.Tmax_unit = "degC",
                            !.use_resist = "Yes"]
\* a temperature array of three points over a value array of two
single_short_S == [single_defaults EXCEPT !.S = short_S]
\* Tmax equal to Tc
single_dT0 ==
    [single_defaults EXCEPT !.S = coef_S, !.k = coef_k, !.rho = coef_rho, !.Tmax = txt_300]
\* no heat input
single_Q0 ==
    [single_defaults EXCEPT !.S = coef_S, !.k = coef_k, !.rho = coef_rho,
                            !.Tmax = txt_600, !.Qin = txt_0]
\* a resistivity that falls with temperature; the contact resistance is
\* disabled, the length entry is blank and one resistivity entry is no number
single_falling ==
    [single_defaults EXCEPT !.S = coef_S, !.k = coef_k_low, !.rho = coef_rho_falling,
                            !.Tmax = txt_497, !.L = <<>>, !.gamma_h = <<"x">>]
\* Tmax of 0 K
single_T0 == [single_defaults EXCEPT !.Tmax = txt_0]

SingleSheets ==
    <<single_defaults, single_resist, single_short_S, single_dT0, single_Q0,
      single_falling, single_T0>>

\* the p box filled with an n-type Seebeck coefficient and the n box with a
\* p-type one
Couple_swapped ==
    [Couple_defaults EXCEPT !.p_S = coef_S_neg, !.p_k = coef_k, !.p_rho = coef_rho,
                            !.n_S = coef_S, !.n_k = coef_k, !.n_rho = coef_rho]
\* the n conductivity box holding a temperature array only
Couple_lone_k == [Couple_defaults EXCEPT !.n_k = lone_k]
\* Tmax equal to Tc
Couple_dT0 == [Couple_defaults EXCEPT !.Tmax = txt_300]
\* contact resistances on, with a leg length of 0
Couple_L0 == [Couple_defaults EXCEPT !.use_resist = "Yes", !.L = txt_0]

CoupleSheets == <<Couple_defaults, Couple_swapped, Couple_lone_k, Couple_dT0, Couple_L0>>

SheetsOf(mode) == IF mode = "single" THEN SingleSheets ELSE CoupleSheets

Modes == <<"single", "Couple">>
ModeNumber(mode) == IF mode = "single" THEN 1 ELSE 2

NoCurves == [op |-> "none"]

\* calc_outcome on a sheet, curves_outcome on what it stores, and dash_curve
\* on the curve that is plotted
OutcomesWith(w, out, curves) ==
    [sheet |-> w, calc |-> out, curves |-> curves,
     dash |-> IF curves.op = "curves" /\ curves.msg = "plot"
              THEN dash_curve(out, curves.data) ELSE NoAttribute]

Outcomes(w, out) ==
    OutcomesWith(w, out, IF out.err = "none" THEN curves_outcome(out) ELSE NoCurves)

OutcomesOf(mode, sheets) ==
    Array([n \in DOMAIN sheets |-> Outcomes(sheets[n], calc_outcome(mode, sheets[n]))])

\* the outcomes on every sheet of every mode, computed once
outcomes_memo == Array([k \in DOMAIN Modes |-> OutcomesOf(Modes[k], SheetsOf(Modes[k]))])

Memo(mode) == outcomes_memo[ModeNumber(mode)]

\* the outcomes on the sheet w
OnSheet(tab, w) == tab[CHOOSE n \in DOMAIN tab : tab[n].sheet = w]
\* the outcomes that stored p
OnResult(tab, p) == tab[CHOOSE n \in DOMAIN tab : tab[n].calc = p]

\* calc_outcome(mode, w) for a sheet w
try_calc(mode, w) == OnSheet(Memo(mode), w).calc

\* curves_outcome(p) for a stored result p
try_curves(p) == OnResult(Memo(p.mode), p).curves

\* dash_curve(p, data) for a stored result p and the curve data made from it
try_dash(p) == OnResult(Memo(p.mode), p).dash

\* what on_generate_curves makes of a stored result p: the curve data and
\* the secondary curve drawn with them
try_plot(p) == OnResult(Memo(p.mode), p)


(***************************************************************************)
(* The custom material library: the file, json.dump and json.loads         *)
(*                                                                         *)
(* A file is a sequence of lines and a line a sequence of tokens: a run of *)
(* blanks, a "#" with the rest of its line, a punctuation mark, a string   *)
(* or a number.  A material is the sequence of its key and value pairs, in *)
(* the order the dict holds them.                                          *)
(***************************************************************************)
JPunct(v) == [t |-> "punct", v |-> v]
JStr(s) == [t |-> "str", v |-> s]
JNum(n) == [t |-> "num", n |-> n]
Indent(n) == [t |-> "blank", n |-> n]
Hash(s) == [t |-> "comment", v |-> s]

IsPunct(tok, v) == tok.t = "punct" /\ tok.v = v
IsScalar(tok) == tok.t \in {"str", "num"}

CUSTOM_HEADER ==
    << <<Hash("# Custom material library parameter file (UTF-8)")>>,
       <<Hash("# This is a JSON array (after removing lines beginning with #, it becomes valid JSON).")>>,
       <<Hash("# Fields for each record:")>>,
       <<Hash("#   name: material name; type: 'P' or 'N'; Tmax: maximum safe temperature (K)")>>,
       <<Hash("#   S / k / rho: each is a raw text block, with the same format as the main UI input boxes, e.g.:")>>,
       <<Hash("#       \"Ts=[...];\\ns_t=[...]\", \"Tk=[...];\\nk_t=[...]\", \"Tr=[...];\\nr_t=[...]\".")>>,
       <<Hash("# You can also write via the program UI using \"Save to Custom Library\"; or edit this file manually; it will be loaded automatically on next startup.")>>,
       <<Hash("# ------------------------------------------------------------------------------")>> >>

Pair(key, val) == [key |-> key, val |-> val]

\* a dict, pairs its items in order
Dict(pairs) == [kind |-> "dict", pairs |-> pairs]
\* a list
List(items) == [kind |-> "list", items |-> items]
\* a string or a number
Scalar(tok) == [kind |-> "scalar", tok |-> tok]

\* the entry the two save commands build, lines 1463 and 1481
Material(name, type, Tmax, S, k, rho) ==
    Dict(<<Pair("name", JStr(name)), Pair("type", JStr(type)), Pair("Tmax", JNum(Tmax)),
           Pair("S", JStr(S)), Pair("k", JStr(k)), Pair("rho", JStr(rho))>>)

CUSTOM_EXAMPLE ==
    List(<<Material("Custom Example Material (P, 600K)", "P", 600,
                    "Ts=[300 350 400 450 500 550 600];\ns_t=[0.00015 0.00017 0.00019 0.0002 0.000205 0.00021 0.000215];",
                    "Tk=[300 350 400 450 500 550 600];\nk_t=[1.5 1.45 1.4 1.35 1.3 1.28 1.25];",
                    "Tr=[300 350 400 450 500 550 600];\nr_t=[1.2e-5 1.3e-5 1.4e-5 1.5e-5 1.6e-5 1.7e-5 1.8e-5];")>>)

\* the lines of all the sequences of lines in ss
RECURSIVE Lines(_)
Lines(ss) == IF Len(ss) = 0 THEN <<>> ELSE Head(ss) \o Lines(Tail(ss))

\* a "," unless the item is the last
Comma(last) == IF last THEN <<>> ELSE <<JPunct(",")>>

\* json.dump(..., indent=2) of a dict at depth 1
dump_dict(d, last) ==
    IF Len(d.pairs) = 0 THEN << <<Indent(2), JPunct("{"), JPunct("}")>> \o Comma(last) >>
    ELSE << <<Indent(2), JPunct("{")>> >>
         \o Array([n \in 1..Len(d.pairs) |->
                      <<Indent(4), JStr(d.pairs[n].key), JPunct(":"), Indent(1), d.pairs[n].val>>
                      \o Comma(n = Len(d.pairs))])
         \o << <<Indent(2), JPunct("}")>> \o Comma(last) >>

\* json.dump(mats, f, ensure_ascii=False, indent=2) of a list of dicts
json_dump(mats) ==
    IF Len(mats.items) = 0 THEN << <<JPunct("["), JPunct("]")>> >>
    ELSE << <<JPunct("[")>> >>
         \o Lines(Array([n \in 1..Len(mats.items) |->
                            dump_dict(mats.items[n], n = Len(mats.items))]))
         \o << <<JPunct("]")>> >>

\* CUSTOM_LIB_PATH: whether the file exists, and its lines
File(lines) == [exists |-> TRUE, lines |-> lines]
NoFile == [exists |-> FALSE, lines |-> <<>>]

\* the file after open(CUSTOM_LIB_PATH, "w"), the header and the dump
written(mats) == File(CUSTOM_HEADER \o json_dump(mats))

ensure_custom_lib(file) == IF file.exists THEN file ELSE written(CUSTOM_EXAMPLE)

\* the file the entrance leaves, line 1489
created_file == ensure_custom_lib(NoFile)

IsBlank(tok) == tok.t = "blank"
NotBlank(tok) == ~IsBlank(tok)

\* ln.strip().startswith("#")
StartsWithHash(ln) ==
    Len(SelectSeq(ln, NotBlank)) > 0 /\ SelectSeq(ln, NotBlank)[1].t = "comment"
KeptLine(ln) == ~StartsWithHash(ln)

\* the tokens of "".join(lines), white space left out
Joined(lines) == SelectSeq(Lines(lines), NotBlank)

NoParse == [ok |-> FALSE]
Decoded_at(val, next) == [ok |-> TRUE, val |-> val, next |-> next]

\* the pairs of an object from toks[i] on, acc the pairs read before
RECURSIVE object_from(_, _, _)
object_from(toks, i, acc) ==
    IF i + 3 > Len(toks) THEN NoParse
    ELSE IF toks[i].t = "str" /\ IsPunct(toks[i + 1], ":") /\ IsScalar(toks[i + 2])
         THEN IF IsPunct(toks[i + 3], ",")
              THEN object_from(toks, i + 4, Append(acc, Pair(toks[i].v, toks[i + 2])))
              ELSE IF IsPunct(toks[i + 3], "}")
                   THEN Decoded_at(Dict(Append(acc, Pair(toks[i].v, toks[i + 2]))), i + 4)
                   ELSE NoParse
         ELSE NoParse

\* the object whose "{" is toks[i]
object_at(toks, i) ==
    IF i + 1 <= Len(toks) /\ IsPunct(toks[i + 1], "}") THEN Decoded_at(Dict(<<>>), i + 2)
    ELSE object_from(toks, i + 1, <<>>)

\* the item at toks[i]: a dict or a scalar
item_at(toks, i) ==
    IF i > Len(toks) THEN NoParse
    ELSE IF IsPunct(toks[i], "{") THEN object_at(toks, i)
    ELSE IF IsScalar(toks[i]) THEN Decoded_at(Scalar(toks[i]), i + 1)
    ELSE NoParse

\* the items of an array from toks[i] on, acc the items read before
RECURSIVE array_from(_, _, _)
array_from(toks, i, acc) ==
    LET it == item_at(toks, i)
    IN  IF ~it.ok THEN NoParse
        ELSE IF it.next > Len(toks) THEN NoParse
        ELSE IF IsPunct(toks[it.next], ",")
             THEN array_from(toks, it.next + 1, Append(acc, it.val))
             ELSE IF IsPunct(toks[it.next], "]")
                  THEN Decoded_at(List(Append(acc, it.val)), it.next + 1)
                  ELSE NoParse

\* the value at the start of toks
value_of(toks) ==
    IF IsPunct(toks[1], "[")
    THEN IF Len(toks) >= 2 /\ IsPunct(toks[2], "]") THEN Decoded_at(List(<<>>), 3)
         ELSE array_from(toks, 2, <<>>)
    ELSE item_at(toks, 1)

\* whether a parse has used up the text; tokens after the value are an
\* error ("Extra data")
Complete(toks, r) == IF r.ok THEN r.next = Len(toks) + 1 ELSE FALSE

\* json.loads(txt) of a text that is not empty: the value, or ok = FALSE for
\* a JSONDecodeError
json_loads_of(toks, r) == IF Complete(toks, r) THEN r ELSE NoParse

json_loads(toks) == json_loads_of(toks, value_of(toks))

\* lines 66-71 on the tokens left: the value, [] for an empty text and for
\* any exception
loaded(toks) ==
    IF Len(toks) = 0 THEN List(<<>>)
    ELSE IF json_loads(toks).ok THEN json_loads(toks).val ELSE List(<<>>)

\* lines 64-71 on the file ensure_custom_lib has left
load_from(file) == loaded(Joined(SelectSeq(file.lines, KeptLine)))

\* load_custom_materials: what it returns
load_custom_materials(file) == load_from(ensure_custom_lib(file))

HasNameKey(p) == p.key = "name"

\* m.get("name", "")
get_name(m) ==
    IF Len(SelectSeq(m.pairs, HasNameKey)) = 0 THEN JStr("")
    ELSE SelectSeq(m.pairs, HasNameKey)[Len(SelectSeq(m.pairs, HasNameKey))].val

\* names.index(x)
index(names, x) ==
    CHOOSE n \in 1..Len(names) : names[n] = x /\ \A k \in 1..(n - 1) : names[k] # x

\* lines 76-79 with an entry that is added behind the others whatever they
\* are called
upsert_appending(items, names, entry) == Append(items, entry)

\* lines 76-79
upsert(items, names, entry) ==
    IF \E n \in 1..Len(names) : names[n] = get_name(entry)
    THEN [items EXCEPT ![index(names, get_name(entry))] = entry]
    ELSE Append(items, entry)

\* the names of line 75
names_of(items) == Array([n \in 1..Len(items) |-> get_name(items[n])])

\* lines 74-82 from what load_custom_materials has returned: the file and the
\* exception, if any; m.get fails on an item that is no dict, the loop on a
\* value that is no list
save_loaded(file, mats, entry) ==
    IF mats.kind # "list" THEN [file |-> file, err |-> "AttributeError"]
    ELSE IF \E n \in 1..Len(mats.items) : mats.items[n].kind # "dict"
         THEN [file |-> file, err |-> "AttributeError"]
         ELSE [file |-> written(List(upsert(mats.items, names_of(mats.items), entry))),
               err |-> "none"]

\* save_material_to_custom_lib(entry) on a file: the file it leaves
save_material_to_custom_lib(file, entry) ==
    save_loaded(ensure_custom_lib(file), load_custom_materials(file), entry)
(***************************************************************************)
(* State                                                                   *)
(*                                                                         *)
(* mode_var, _last_mode, _input_cache and last_results are the attributes  *)
(* of TEGFrame.  widgets is the content of the entries, unit selectors and *)
(* material boxes of the current mode, by the key save_inputs files each   *)
(* under.  last_call records the last operation and what it showed or      *)
(* returned.  parse_txt, parse_var and parse_ret are the arguments and the *)
(* outcome of a direct call of parse_input.  _dash_curve_export is the     *)
(* attribute _plot_curves sets, plot_window the data of the plot window    *)
(* opened last.  kernel_ret and kernel_seen record direct calls of the     *)
(* kernels, lib_file and lib_ret the custom library file and the outcome   *)
(* of the last call on it.                                                 *)
(***************************************************************************)
VARIABLES mode_var, _last_mode, _input_cache, last_results, widgets, last_call,
          _dash_curve_export, plot_window,
          parse_txt, parse_var, parse_ret,
          kernel_ret, kernel_seen,
          lib_file, lib_ret

frame == <<mode_var, _last_mode, _input_cache, last_results, widgets, last_call,
           _dash_curve_export, plot_window>>
parse == <<parse_txt, parse_var, parse_ret>>
kernel == <<kernel_ret, kernel_seen>>
library == <<lib_file, lib_ret>>
vars == <<frame, parse, kernel, library>>
others == <<parse, kernel, library>>

\* last_results = None
None == [mode |-> "None"]
NotCalled == [op |-> "none"]
\* no plot window has been opened
NoWindow == [open |-> FALSE]

\* TEGFrame.__init__
InitFrame ==
    /\ mode_var = "single"
    /\ _input_cache = NoCache
    /\ _last_mode = "single"
    /\ last_results = None
    /\ widgets = restore_inputs(NoCache, "single")
    /\ last_call = NotCalled
    /\ _dash_curve_export = NoAttribute
    /\ plot_window = NoWindow

InitParse ==
    /\ parse_txt = <<>>
    /\ parse_var = "S"
    /\ parse_ret = NotCalled

\* no watched call of a kernel has been made
Unseen == [k |-> 0]

InitKernel ==
    /\ kernel_ret = [k |-> 0, call |-> NotCalled, ret |-> [err |-> "none"]]
    /\ kernel_seen = Unseen

\* the entrance has called ensure_custom_lib
InitLibrary ==
    /\ lib_file = created_file
    /\ lib_ret = NotCalled

Init == InitFrame /\ InitParse /\ InitKernel /\ InitLibrary

\* the user retypes entries and boxes
edit(w) ==
    /\ w # widgets
    /\ widgets' = w
    /\ last_call' = [op |-> "edit"]
    /\ UNCHANGED <<mode_var, _last_mode, _input_cache, last_results,
                   _dash_curve_export, plot_window>>
    /\ UNCHANGED others

\* a switch_mode without line 757: the result of the mode left is kept
switch_mode_keeping(target_mode) ==
    /\ mode_var' = target_mode
    /\ _input_cache' = save_inputs(_input_cache, _last_mode, widgets)
    /\ _last_mode' = target_mode
    /\ widgets' = restore_inputs(_input_cache', target_mode)
    /\ last_call' = [op |-> "switch_mode"]
    /\ UNCHANGED <<last_results, _dash_curve_export, plot_window>>
    /\ UNCHANGED others

\* switch_mode, the command of both mode buttons; the button has set mode_var
switch_mode(target_mode) ==
    /\ mode_var' = target_mode
    /\ _input_cache' = save_inputs(_input_cache, _last_mode, widgets)
    /\ last_results' = None
    /\ _last_mode' = target_mode
    /\ widgets' = restore_inputs(_input_cache', target_mode)
    /\ last_call' = [op |-> "switch_mode"]
    /\ UNCHANGED <<_dash_curve_export, plot_window>>
    /\ UNCHANGED others

\* an on_calc without line 769: a failed run leaves the earlier result
StoreResult_kept(prev, out) == IF out.err = "none" THEN out ELSE prev

\* what on_calc leaves in last_results: line 769 and the except branch clear
\* it, the try block stores the result set when nothing is raised
StoreResult(prev, out) == IF out.err = "none" THEN out ELSE None

\* on_calc, from the outcome of its try block; advisory tells whether the
\* text shown calls the open-circuit results unreliable (lines 812 and 883)
on_calc_with(out) ==
    /\ last_results' = StoreResult(last_results, out)
    /\ last_call' = IF out.err = "none"
                    THEN [op |-> "on_calc", msg |-> "results", err |-> "none",
                          named |-> FALSE, advisory |-> TRUE]
                    ELSE [op |-> "on_calc", msg |-> "Computation failed",
                          err |-> out.err, named |-> out.named]
    /\ UNCHANGED <<mode_var, _last_mode, _input_cache, widgets,
                   _dash_curve_export, plot_window>>
    /\ UNCHANGED others

on_calc == on_calc_with(try_calc(mode_var, widgets))

\* the plot window _plot_curves(data) opens: its export button keeps data;
\* lr is last_results when it was opened
Window(data, lr) == [open |-> TRUE, data |-> data, lr |-> lr]

\* a Generate Load Curves that uses up the stored result
on_generate_curves_consuming(plot, follow) ==
    /\ last_call' = plot.curves
    /\ _dash_curve_export' = IF plot.curves.msg = "plot"
                             THEN stored_dash(_dash_curve_export, plot.dash)
                             ELSE _dash_curve_export
    /\ plot_window' = IF plot.curves.msg = "plot" /\ follow
                      THEN Window(plot.curves.data, last_results) ELSE plot_window
    /\ last_results' = None
    /\ UNCHANGED <<mode_var, _last_mode, _input_cache, widgets>>
    /\ UNCHANGED others

\* on_generate_curves from what the sampler returns; follow tells whether
\* the window it opens is the one plot_window describes from now on
on_generate_curves_with(plot, follow) ==
    /\ last_call' = plot.curves
    /\ _dash_curve_export' = IF plot.curves.msg = "plot"
                             THEN stored_dash(_dash_curve_export, plot.dash)
                             ELSE _dash_curve_export
    /\ plot_window' = IF plot.curves.msg = "plot" /\ follow
                      THEN Window(plot.curves.data, last_results) ELSE plot_window
    /\ UNCHANGED <<mode_var, _last_mode, _input_cache, last_results, widgets>>
    /\ UNCHANGED others

\* on_generate_curves
on_generate_curves(follow) ==
    on_generate_curves_with(IF last_results = None
                            THEN [curves |-> [op |-> "curves", msg |-> "Please run first"],
                                  dash |-> NoAttribute]
                            ELSE try_plot(last_results),
                            follow)

\* the first n elements of a series
Head_n(s, n) == SubSeq(s, 1, n)

Min(a, b) == IF a <= b THEN a ELSE b

\* the optimum row, lines 1313-1321
opt_row(opt) ==
    <<opt.m_opt, opt.Vopt, opt.Th_opt, Fmul(opt.eff, FromInt(100)), opt.I_opt,
      opt.R_star_opt>>

\* the columns _export_plot_data(data) copies, n rows of each, and the
\* optimum row; the numbers are written with ten significant digits, more
\* than a number of the model holds
exported(data, has_dash, d, n, opt) ==
    [op |-> "export", msg |-> "Copied", has_dash |-> has_dash,
     m |-> Head_n(data.m, n), v_load |-> Head_n(data.v_load, n),
     th |-> Head_n(data.th, n), eta |-> Head_n(data.eta, n),
     i |-> Head_n(data.i, n), rstar |-> Head_n(data.rstar, n),
     v_dash |-> IF has_dash THEN Head_n(d.v, n) ELSE <<>>,
     eta_dash |-> IF has_dash THEN Head_n(d.eta, n) ELSE <<>>,
     opt |-> opt_row(opt)]

\* _export_plot_data(data), the command of the export button of the window
_export_plot_data(data) ==
    /\ last_call' = IF last_results = None
                    THEN [op |-> "export", msg |-> "Export failed", err |-> "TypeError"]
                    ELSE exported(data, _dash_curve_export.set, _dash_curve_export,
                                  IF _dash_curve_export.set
                                  THEN Min(Len(data.v_load), Len(_dash_curve_export.v))
                                  ELSE Len(data.v_load),
                                  last_results)
    /\ UNCHANGED <<mode_var, _last_mode, _input_cache, last_results, widgets,
                   _dash_curve_export, plot_window>>
    /\ UNCHANGED others

\* the unit tokens of the three selectors, and one more for each
TempUnits == {"K", "degC", "degF"}
LengthUnits == {"m", "mm", "cm"}
ResistUnits == {"ohm.m2", "ohm.cm2", "ohm.mm2", "ohm"}

\* one of the three unit conversions
unit_convert(kind, val, unit) ==
    CASE kind = "temp" -> unit_convert_temp(val, unit)
      [] kind = "length" -> unit_convert_length(val, unit)
      [] kind = "resist" -> unit_convert_resist(val, unit)

UnitsOf(kind) ==
    CASE kind = "temp" -> TempUnits
      [] kind = "length" -> LengthUnits
      [] kind = "resist" -> ResistUnits
ValOf(kind) ==
    CASE kind = "temp" -> txt_300
      [] kind = "length" -> txt_1
      [] kind = "resist" -> txt_1E8

Next ==
    \/ \E n \in 1..Len(SheetsOf(mode_var)) : edit(SheetsOf(mode_var)[n])
    \/ \E target_mode \in {"single", "Couple"} : switch_mode(target_mode)
    \/ on_calc
    \/ on_generate_curves(TRUE)

Spec == Init /\ [][Next]_vars


\* the sheets of the runs whose curves are plotted and exported
PlotSheetsOf(mode) ==
    IF mode = "single" THEN <<single_resist, single_falling>>
    ELSE <<Couple_defaults, Couple_swapped>>

NextPlot ==
    \/ \E n \in 1..Len(PlotSheetsOf(mode_var)) : edit(PlotSheetsOf(mode_var)[n])
    \/ \E target_mode \in {"single", "Couple"} : switch_mode(target_mode)
    \/ on_calc
    \/ \E follow \in BOOLEAN : on_generate_curves(follow)
    \/ plot_window.open /\ _export_plot_data(plot_window.data)

SpecPlot == Init /\ [][NextPlot]_vars

\* texts handed to parse_input directly
pt_bad_token ==
    <<"T", "s", "=", "[", "3", "0", "0", " ", "4", "x", "0", " ", "6", "0",
      "0", " ", "7", "5", "0", " ", "9", "0", "0", "]", ";", "\n", "s", "_",
      "t", "=", "[", "1", " ", "2", " ", "3", " ", "4", " ", "5", "]", ";">>

pt_negation ==
    <<"T", "s", "=", "[", "3", "0", "0", " ", "4", "5", "0", " ", "6", "0",
      "0", " ", "7", "5", "0", " ", "9", "0", "0", "]", ";", "\n", "s", "_",
      "t", "=", "-", "[", "1", "e", "-", "4", " ", "2", "e", "-", "4", " ",
      "3", "e", "-", "4", " ", "4", "e", "-", "4", " ", "5", "e", "-", "4",
      "]", ";">>

pt_scale_after_literal ==
    <<"s", "_", "t", "=", "[", "1", " ", "2", " ", "3", " ", "4", " ", "5",
      "]", ";", "T", "s", "=", "[", "3", "0", "0", " ", "4", "0", "0", " ",
      "5", "0", "0", " ", "6", "0", "0", " ", "7", "0", "0", "]", ";", "s",
      "_", "t", "=", "2", "*", "[", "1", " ", "2", " ", "3", " ", "4", " ",
      "5", "]", ";">>

pt_reciprocal_after_scale ==
    <<"T", "r", "=", "[", "3", "0", "0", " ", "4", "0", "0", " ", "5", "0",
      "0", " ", "6", "0", "0", " ", "7", "0", "0", "]", ";", "r", "_", "t",
      "=", "1", ".", "/", "[", "2", " ", "2", " ", "2", " ", "2", " ", "2",
      "]", ";", "r", "_", "t", "=", "3", "*", "[", "1", " ", "1", " ", "1",
      " ", "1", " ", "1", "]", ";">>

pt_negation_after_reciprocal ==
    <<"T", "k", "=", "[", "3", "0", "0", " ", "4", "0", "0", " ", "5", "0",
      "0", " ", "6", "0", "0", " ", "7", "0", "0", "]", ";", "k", "_", "t",
      "=", "-", "[", "2", " ", "2", " ", "2", " ", "2", " ", "2", "]", ";",
      "k", "_", "t", "=", "1", ".", "/", "[", "4", " ", "4", " ", "4", " ",
      "4", " ", "4", "]", ";">>

pt_literal_after_negation ==
    <<"T", "s", "=", "[", "3", "0", "0", " ", "4", "0", "0", " ", "5", "0",
      "0", " ", "6", "0", "0", " ", "7", "0", "0", "]", ";", "s", "_", "t",
      "=", "[", "2", " ", "2", " ", "2", " ", "2", " ", "2", "]", ";", "s",
      "_", "t", "=", "-", "[", "4", " ", "4", " ", "4", " ", "4", " ", "4",
      "]", ";">>

pt_pair_in_brackets ==
    <<"[", "0", "]", " ", "T", "s", "=", "[", "3", "0", "0", " ", "4", "5",
      "0", " ", "6", "0", "0", " ", "7", "5", "0", " ", "9", "0", "0", "]",
      " ", "s", "_", "t", "=", "[", "3", " ", "3", " ", "3", " ", "3", " ",
      "3", "]">>

pt_list_of_T ==
    <<"[", "T", "]">>

pt_expression ==
    <<"2", "e", "-", "4", "+", "1", "e", "-", "7", "*", "T">>

pt_half_expression ==
    <<"T", "+">>

pt_empty ==
    <<>>

pt_word ==
    <<"h", "e", "l", "l", "o">>

pt_list_semicolon ==
    <<"[", "1", " ", "2", ";", " ", "3", "]">>

pt_list_commas ==
    <<"[", "1", "e", "-", "7", ",", " ", "2", "e", "-", "4", "]">>

pt_padded_list ==
    <<" ", " ", "[", "0", " ", "1", ".", "5", "]", "\n">>

ParseTexts ==
    <<raw_single_S, raw_single_k, raw_single_rho, raw_n_S, raw_n_rho, raw_p_rho, coef_S,
      short_S, lone_k, pt_bad_token, pt_negation, pt_scale_after_literal,
      pt_reciprocal_after_scale, pt_negation_after_reciprocal, pt_literal_after_negation,
      pt_pair_in_brackets, pt_list_of_T, pt_expression, pt_half_expression, pt_empty,
      pt_word, pt_list_semicolon, pt_list_commas, pt_padded_list>>

\* the caller picks a text and a property
new_text(txt, varname) ==
    /\ parse_txt' = txt
    /\ parse_var' = varname
    /\ parse_ret' = NotCalled
    /\ UNCHANGED <<frame, kernel, library>>

\* parse_input(parse_txt, parse_var); arrx and arry record what
\* extract_data_from_text returned for each array of the pair
call_parse_input ==
    /\ parse_ret' = [op |-> "parse_input",
                     ret |-> parse_input(parse_txt, parse_var, 4),
                     arrx |-> extract_data_from_text(Strip(parse_txt), NameX(parse_var)),
                     arry |-> extract_data_from_text(Strip(parse_txt), NameY(parse_var))]
    /\ UNCHANGED <<parse_txt, parse_var>>
    /\ UNCHANGED <<frame, kernel, library>>

NextParse ==
    \/ \E n \in 1..Len(ParseTexts) : \E varname \in {"S", "k", "rho"} :
           new_text(ParseTexts[n], varname)
    \/ call_parse_input

SpecParse == Init /\ [][NextParse]_vars
(***************************************************************************)
(* Direct calls of the kernels                                             *)
(*                                                                         *)
(* safe_polyint_k, run_calc_single and run_calc_Couple are called with     *)
(* arguments of the caller's choice, and the residuals that a run hands to *)
(* its root finds are evaluated at temperatures of the caller's choice.    *)
(* kernel_ret holds the last call and what it returned; kernel_seen holds  *)
(* an earlier call, what it returned then, and what was called since.      *)
(***************************************************************************)
\* coefficient vectors, highest power first
S_flat == <<Zero, Dec(2, 4)>>
S_flat_n == <<Zero, Fneg(Dec(2, 4))>>
S_weak_n == <<Zero, Fneg(Dec(1, 4))>>
S_falling == <<Fneg(Dec(16, 7)), Dec(1, 3)>>
k_flat == <<Zero, Dec(15, 1)>>
k_small == <<Zero, Dec(1, 2)>>
k_falling == <<Fneg(Dec(1, 2)), FromInt(5)>>
k_negative == <<Fneg(One)>>
rho_flat == <<Zero, Dec(1, 5)>>
rho_rising == <<Dec(2, 8), Dec(4, 6)>>

T_200 == FromInt(200)
T_300 == FromInt(300)
T_400 == FromInt(400)
T_600 == FromInt(600)

\* the arguments of the calls of run_calc_single
SingleRun(p_st, p_kt, p_rt, Tmax, L, gamma) ==
    [op |-> "run_calc_single", Tmax |-> Tmax,
     c |-> SingleArgs(p_st, p_kt, p_rt, One, T_300, L, gamma, gamma)]

SingleRuns ==
    <<SingleRun(S_flat, k_flat, rho_flat, T_600, One, Zero),
      SingleRun(S_flat, k_flat, rho_rising, T_400, One, Zero),
      SingleRun(S_flat, k_flat, rho_flat, T_600, Dec(1, 3), Dec(1, 8)),
      SingleRun(S_falling, k_small, rho_flat, T_600, One, Zero),
      SingleRun(S_flat, k_falling, rho_flat, T_600, One, Zero),
      SingleRun(S_flat, k_flat, rho_flat, T_200, One, Zero),
      SingleRun(S_flat, k_flat, rho_flat, Zero, One, Zero)>>

\* the arguments of the calls of run_calc_Couple
CoupleRun(p_st, p_kt, p_rt, n_st, n_kt, n_rt, Th, L, rc) ==
    [op |-> "run_calc_Couple", Tmax |-> Th,
     c |-> CoupleArgs(One, T_300, L, rc, rc, rc, rc, p_st, p_kt, p_rt, n_st, n_kt, n_rt)]

CoupleRuns ==
    <<CoupleRun(S_flat, k_flat, rho_flat, S_flat_n, k_flat, rho_flat, T_600, One, Zero),
      CoupleRun(S_flat, k_flat, rho_rising, S_flat_n, k_flat, rho_rising, T_400,
                Dec(1, 3), Dec(1, 8)),
      CoupleRun(S_flat, k_flat, rho_flat, S_weak_n, k_small, rho_rising, T_600, One, Zero),
      CoupleRun(S_falling, k_flat, rho_flat, S_weak_n, k_flat, rho_flat, T_600,
                Dec(1, 3), Dec(1, 8)),
      CoupleRun(S_flat, k_flat, rho_flat, S_flat_n, k_flat, rho_flat, Zero, One, Zero)>>

\* the runs whose residuals are evaluated
ResidualRuns == <<SingleRuns[1], SingleRuns[3], CoupleRuns[1], CoupleRuns[3], CoupleRuns[4]>>

\* the residuals of a run: sc_eq of the kernel, the open-circuit residual of
\* on_calc, heat_balance of the operating-point solver at m_opt and at m = 0,
\* and heat_balance_eq of the sampler at m = 0
ResidualKinds == <<"sc", "oc", "hb", "hb0", "smp0">>
ResidualTemps == <<T_200, T_300, FromInt(350), FromInt(450), T_600>>

PolyintCurves == <<k_flat, k_falling, k_negative>>
PolyintTemps == <<T_200, T_300, T_600>>

\* n counted from 0 in base b: the digit of weight b^i
Digit(n, b, i) == (n \div b^i) % b

PolyintCalls ==
    Array([n \in 1..27 |->
              [op |-> "safe_polyint_k", p |-> PolyintCurves[Digit(n - 1, 3, 2) + 1],
               T1 |-> PolyintTemps[Digit(n - 1, 3, 1) + 1],
               T2 |-> PolyintTemps[Digit(n - 1, 3, 0) + 1]]])

ResidualCalls ==
    Array([n \in 1..125 |->
              [op |-> "residual", run |-> ResidualRuns[Digit(n - 1, 5, 2) + 1],
               kind |-> ResidualKinds[Digit(n - 1, 5, 1) + 1],
               Th |-> ResidualTemps[Digit(n - 1, 5, 0) + 1]]])

\* the part of on_calc between the conversions and the display, lines 785-797
\* and 830-861, on the arguments of a run that does not raise
CalcRuns == SubSeq(SingleRuns, 1, 6) \o SubSeq(CoupleRuns, 1, 4)
CalcCalls == Array([n \in DOMAIN CalcRuns |-> [op |-> "on_calc", run |-> CalcRuns[n]]])

KernelCalls == PolyintCalls \o SingleRuns \o CoupleRuns \o ResidualCalls \o CalcCalls

\* the geometry a run solves at Tmax
geometry_of(run) ==
    IF run.op = "run_calc_single" THEN geometry_single(run.c, run.Tmax)
    ELSE geometry_Couple(run.c, run.Tmax)

\* last_results as far as the sampler's heat_balance_eq reads it
stored_of(c) ==
    IF c.mode = "single"
    THEN [mode |-> "single", s_poly |-> c.p_st, k_poly |-> c.p_kt, r_poly |-> c.p_rt,
          Qin |-> c.Qin, Tc |-> c.Tc, Lmax |-> c.L, gamma_c_h |-> c.gamma_c_h,
          gamma_c_c |-> c.gamma_c_c, alpha |-> c.alpha]
    ELSE [mode |-> "Couple", p_s_poly |-> c.p_st, p_k_poly |-> c.p_kt, p_r_poly |-> c.p_rt,
          n_s_poly |-> c.n_st, n_k_poly |-> c.n_kt, n_r_poly |-> c.n_rt,
          Qin |-> c.Qin, Tc |-> c.Tc, Lmax |-> c.L,
          rc_ph |-> c.rc_ph, rc_pc |-> c.rc_pc, rc_nh |-> c.rc_nh, rc_nc |-> c.rc_nc,
          alphaP |-> c.alphaP, alphaN |-> c.alphaN, beta |-> c.beta]

sampler_terms(p, Th) ==
    IF p.mode = "single" THEN hb_terms_single(p, Th) ELSE hb_terms_Couple(p, Th)

sampler_balance(p, Th) == HeatBalance(p.mode, p, sampler_terms(p, Th), Zero)

\* the residual of the kind at Th, c the arguments of the run with the
\* geometry it has solved
residual_at(kind, c, Th) ==
    CASE kind = "hb0" -> Residual("hb", [c EXCEPT !.m = Zero], Th)
      [] kind = "smp0" -> sampler_balance(stored_of(c), Th)
      [] OTHER -> Residual(kind, c, Th)

residual_of(kind, g, Th) == residual_at(kind, g.c, Th)

Returned(v) == [err |-> "none", v |-> v]

\* what a call returns or raises
KernelApply(call) ==
    CASE call.op = "safe_polyint_k" -> Returned(safe_polyint_k(call.p, call.T1, call.T2))
      [] call.op = "run_calc_single" -> run_calc_single_on(call.c, call.Tmax)
      [] call.op = "run_calc_Couple" -> run_calc_Couple_on(call.c, call.Tmax)
      [] call.op = "residual" ->
             Returned(residual_of(call.kind, geometry_of(call.run), call.Th))
      [] call.op = "on_calc" ->
             IF call.run.op = "run_calc_single"
             THEN calc_single_with(call.run.c, call.run.Tmax)
             ELSE calc_Couple_with(call.run.c, call.run.Tmax)

\* what every call returns, computed once
kernel_memo == Array([k \in DOMAIN KernelCalls |-> KernelApply(KernelCalls[k])])

\* what the call returned
MemoOf(call) == kernel_memo[CHOOSE k \in DOMAIN KernelCalls : KernelCalls[k] = call]

\* the calls that are repeated: one of each kernel, and one that raises
Watched == {1, Len(PolyintCalls) + 1, Len(PolyintCalls) + Len(SingleRuns) + 1}

\* kernel_seen after the call k: the first watched call is kept with what it
\* returned, then what has been called since ("failed" once a call raised),
\* until it has been called again
Seen(seen, k, ret) ==
    IF seen = Unseen \/ seen.again
    THEN IF k \in Watched
         THEN [k |-> k, ret |-> ret, since |-> "nothing", again |-> FALSE]
         ELSE Unseen
    ELSE IF k = seen.k THEN [seen EXCEPT !.again = TRUE]
    ELSE [seen EXCEPT !.since = IF ret.err # "none" \/ @ = "failed"
                                THEN "failed" ELSE "calls"]

\* the call KernelCalls[k] returning ret
returned_to(k, ret) ==
    /\ kernel_ret' = [k |-> k, call |-> KernelCalls[k], ret |-> ret]
    /\ kernel_seen' = Seen(kernel_seen, k, ret)
    /\ UNCHANGED <<frame, parse, library>>

\* a call whose result is the one of the call before whenever that was a call
\* of the same function
call_kernel_remembering(k) ==
    returned_to(k, IF kernel_ret.call.op = KernelCalls[k].op
                   THEN kernel_ret.ret ELSE kernel_memo[k])

\* the call KernelCalls[k]: the functions keep nothing between calls, so the
\* result is the one of the arguments alone
call_kernel(k) == returned_to(k, kernel_memo[k])

NextKernel == \E k \in DOMAIN KernelCalls : call_kernel(k)

SpecKernel == Init /\ [][NextKernel]_vars


(***************************************************************************)
(* The custom material library: the calls and the edits of the file        *)
(***************************************************************************)
\* the text blocks of the material boxes when a material is saved
box_S == "Ts=[300 600];\ns_t=[1e-4 2e-4];"
box_k == "Tk=[300 600];\nk_t=[1.5 1.2];"
box_rho == "Tr=[300 600];\nr_t=[1e-5 2e-5];"

\* the names and the Tmax the MaterialMetaDialog returns
DialogNames == {"Bi2Te3", "PbTe", "SiGe"}
DialogTmax == {500, 600}

\* the entries save_current_single_to_custom and save_leg_to_custom build
Entries ==
    {Material(name, "P", Tmax, box_S, box_k, box_rho) :
         name \in DialogNames, Tmax \in DialogTmax}

\* load_custom_materials()
load ==
    /\ lib_file' = ensure_custom_lib(lib_file)
    /\ lib_ret' = [op |-> "load", mats |-> load_custom_materials(lib_file)]
    /\ UNCHANGED <<frame, parse, kernel>>

\* save_material_to_custom_lib(entry)
save(entry) ==
    /\ lib_file' = save_material_to_custom_lib(lib_file, entry).file
    /\ lib_ret' = [op |-> "save", entry |-> entry,
                   err |-> save_material_to_custom_lib(lib_file, entry).err]
    /\ UNCHANGED <<frame, parse, kernel>>

\* the user deletes the file
remove_file ==
    /\ lib_file.exists
    /\ lib_file' = NoFile
    /\ lib_ret' = [op |-> "edit", edit |-> "remove"]
    /\ UNCHANGED <<frame, parse, kernel>>

\* the user edits the file and leaves it without its last line, the closing
\* bracket of the array
cut_last_line ==
    /\ lib_file.exists
    /\ Len(lib_file.lines) > Len(CUSTOM_HEADER) + 1
    /\ IsPunct(lib_file.lines[Len(lib_file.lines)][1], "]")
    /\ lib_file' = File(SubSeq(lib_file.lines, 1, Len(lib_file.lines) - 1))
    /\ lib_ret' = [op |-> "edit", edit |-> "cut"]
    /\ UNCHANGED <<frame, parse, kernel>>

NextLib ==
    \/ load
    \/ \E entry \in Entries : save(entry)
    \/ remove_file
    \/ cut_last_line

SpecLib == Init /\ [][NextLib]_vars

(***************************************************************************)
(* Properties of parse_input and extract_data_from_text, under SpecParse   *)
(***************************************************************************)
\* parse_input has been called on parse_txt and parse_var
Called == parse_ret.op = "parse_input"

\* the text extract_data_from_text searches
Cleaned == Remove(Remove(Strip(parse_txt), "\n"), ";")

\* the first encoding, in the stated order, whose expression matches name
FirstEncoding(name) ==
    CASE Search(Cleaned, name, "scale").lo # 0 -> "scale"
      [] Search(Cleaned, name, "reciprocal").lo # 0 -> "reciprocal"
      [] Search(Cleaned, name, "negation").lo # 0 -> "negation"
      [] Search(Cleaned, name, "literal").lo # 0 -> "literal"
      [] OTHER -> "none"

\* the values written in the list of the match of encoding enc for name
Written(name, enc) ==
    FloatList(SubSeq(Cleaned, Search(Cleaned, name, enc).lo, Search(Cleaned, name, enc).hi)).arr

\* C1: a text that matches no encoding (arrays of different lengths, an
\* unparsable token, one array of the pair only) makes parse_input fail
\* with an error that names the property, and no coefficients are returned
C1_ParseErrorNamesProperty ==
    Called /\ parse_txt \in {short_S, pt_bad_token, lone_k}
    => parse_ret.ret.err # "none" /\ parse_ret.ret.named /\ parse_ret.ret.poly = <<>>

\* C1: the call on arrays of different lengths has failed
C1_Mismatch_Reached ==
    Called /\ parse_txt = short_S /\ parse_var = "S" /\ parse_ret.ret.err # "none"

\* the branch of parse_input the stated order selects
FirstBranch ==
    CASE parse_ret.arrx.kind # "None" /\ parse_ret.arry.kind # "None" -> "pair"
      [] At(Strip(parse_txt), 1, "[") /\ At(Strip(parse_txt), Len(Strip(parse_txt)), "]") -> "list"
      [] (Contains(Strip(parse_txt), "T") \/ Contains(Strip(parse_txt), "t"))
         /\ ~Contains(Strip(parse_txt), "=") -> "expr"
      [] OTHER -> "none"

\* C10: the encodings are tried in the stated order and the first that
\* matches decides: scale, reciprocal, negation, literal for each array, then
\* pair, bracketed list, expression for the text
C10_FirstMatchDecides ==
    Called =>
        /\ parse_ret.arrx.enc = FirstEncoding(NameX(parse_var))
        /\ parse_ret.arry.enc = FirstEncoding(NameY(parse_var))
        /\ parse_ret.ret.via \in {FirstBranch, "none"}
        /\ parse_ret.ret.err = "none" => parse_ret.ret.via = FirstBranch

\* C10: a text was parsed in which a later encoding matches as well: the
\* literal expression matches before the scale one in the text, and the text
\* that holds a pair is bracketed
C10_LaterAlsoMatches ==
    /\ Called
    /\ \/ /\ parse_txt = pt_scale_after_literal /\ parse_var = "S"
          /\ Search(Cleaned, NameY("S"), "literal").lo # 0
          /\ parse_ret.arry.enc = "scale"
       \/ /\ parse_txt = pt_pair_in_brackets /\ parse_var = "S"
          /\ parse_ret.ret.via = "pair"

\* what each encoding does to a written value
Encoded(enc, v, factor) ==
    CASE enc = "scale" -> Fmul(v, factor)
      [] enc = "reciprocal" -> Fdiv(One, v)
      [] enc = "negation" -> Fneg(v)
      [] OTHER -> v

\* the factor written before the star of the scale encoding
FactorOf(name) ==
    pyfloat(SubSeq(Cleaned, Search(Cleaned, name, "scale").f1, Search(Cleaned, name, "scale").f2)).v

ElementWise(a, name) ==
    a.kind = "array" =>
        /\ Len(a.arr) = Len(Written(name, a.enc))
        /\ \A k \in 1..Len(a.arr) :
               a.arr[k] = Encoded(a.enc, Written(name, a.enc)[k],
                                  IF a.enc = "scale" THEN FactorOf(name) ELSE One)

\* C11: an array read by extract_data_from_text has one value for each value
\* written, in the order written: its reciprocal, its negation, its product
\* with the scalar, or the value itself, by the encoding
C11_ElementWise ==
    Called => ElementWise(parse_ret.arrx, NameX(parse_var))
              /\ ElementWise(parse_ret.arry, NameY(parse_var))

\* C11: arrays of the reciprocal, negation and scale encodings have been read
C11_Encodings_Reached ==
    /\ Called
    /\ parse_ret.arry.kind = "array"
    /\ parse_ret.arry.enc = "reciprocal"
    /\ parse_txt = raw_single_rho
    /\ Len(parse_ret.arry.arr) = 5
    /\ parse_ret.arry.arr[1] # Written(NameY("rho"), "reciprocal")[1]

\* C12: every coefficient vector parse_input returns has deg + 1 = 5
\* coefficients
C12_FixedLength ==
    Called /\ parse_ret.ret.err = "none" => Len(parse_ret.ret.poly) = 4 + 1

\* C12: a bare bracketed list of two coefficients has been parsed
C12_List_Reached ==
    Called /\ parse_txt = coef_S /\ parse_ret.ret.err = "none" /\ parse_ret.ret.via = "list"

(***************************************************************************)
(* Properties of the main frame, under Spec                                *)
(***************************************************************************)
\* the last operation was a Generate Load Curves that ran the sampler
Sampled == last_call.op = "curves" /\ last_call.msg # "Please run first"

\* a series without its first and last element
Interior(s) == SubSeq(s, 2, Len(s) - 1)

RecognizedUnits == {"K", "degC", "m", "mm", "ohm.m2", "ohm.cm2", "ohm.mm2"}

\* C2: a failed Run Optimization leaves last_results = None, Generate Load
\* Curves is refused while it is None, and a unit token that is not
\* recognized raises an error instead of returning a value
C2_FailedRunCachesNothing ==
    /\ last_call.op = "on_calc" /\ last_call.err # "none" => last_results = None
    /\ last_call.op = "curves" /\ last_results = None => last_call.msg = "Please run first"
    /\ \A kind \in {"temp", "length", "resist"} :
           \A unit \in UnitsOf(kind) \ RecognizedUnits :
               /\ unit_convert(kind, ValOf(kind), unit).err = "ValueError"
               /\ unit_convert(kind, ValOf(kind), unit).v = NaN

\* C2: a Run Optimization has failed on a sheet
C2_Failed_Reached ==
    last_call.op = "on_calc" /\ last_call.err = "TypeError" /\ last_results = None
    /\ widgets = single_short_S

\* C3: a stored result set comes from a run whose three root-finds
\* (short-circuit, open-circuit, operating-point) all converged
C3_StoredMeansConverged ==
    last_results # None
    => last_results.ier_sc = 1 /\ last_results.ier_oc = 1 /\ last_results.ier_opt = 1

\* C3: a run with Tmax = Tc has stored its result
C3_dT0_Reached ==
    last_call.op = "on_calc" /\ last_results # None /\ widgets = single_dT0

\* the passes of the sweep whose root find converged
Converged(sweep) == {n \in 1..Len(sweep) : sweep[n].converged}

\* C4: curves are plotted only when at least three swept samples converged
C4_PlotNeedsThreeSamples ==
    Sampled /\ last_call.msg = "plot" => Cardinality(Converged(last_call.sweep)) >= 3

\* C4: a sweep has ended with one or two converged samples
C4_FewSamples_Reached ==
    Sampled /\ Cardinality(Converged(last_call.sweep)) \in {1, 2}

\* the Th values of the passes that were kept
KeptTh(sweep) == Array([n \in 1..Len(SelectSeq(sweep, IsKept)) |-> SelectSeq(sweep, IsKept)[n].th])

\* C5: a swept sample is a point of the curve exactly when its root find
\* converged, Th > Tc and R* > 0; a sample that is left out does not change
\* the others
C5_KeptIffSolved ==
    Sampled =>
        /\ \A n \in 1..Len(last_call.sweep) :
               last_call.sweep[n].kept
               <=> /\ last_call.sweep[n].converged
                   /\ Fgt(last_call.sweep[n].th, last_results.Tc)
                   /\ Fgt(last_call.sweep[n].rstar, Zero)
        /\ Len(last_call.data.th) \in {0, Len(KeptTh(last_call.sweep)) + 2}
        /\ Len(KeptTh(last_call.sweep)) = 0 <=> Len(last_call.data.th) = 0

\* C5: a sweep has kept some samples and left out others
C5_SomeLeftOut_Reached ==
    /\ Sampled
    /\ \E n \in 1..Len(last_call.sweep) : last_call.sweep[n].kept
    /\ \E n \in 1..Len(last_call.sweep) : ~last_call.sweep[n].kept

\* C6: a curve that is not empty starts at V = 0, I = Isc, Th = Th_sc and ends
\* at V = Voc, I = 0, Th = Th_oc, the values of the stored result
C6_EndPoints ==
    Sampled /\ Len(last_call.data.v_load) > 0 =>
        /\ last_call.data.v_load[1] = Zero
        /\ last_call.data.i[1] = last_results.Isc
        /\ last_call.data.th[1] = last_results.Th_sc
        /\ last_call.data.v_load[Len(last_call.data.v_load)] = last_results.Voc
        /\ last_call.data.i[Len(last_call.data.i)] = Zero
        /\ last_call.data.th[Len(last_call.data.th)] = last_results.Th_oc

\* C6: a curve of more than two points has been returned
C6_Curve_Reached ==
    Sampled /\ Len(last_call.data.v_load) > 2 /\ last_call.data.i[1] # Zero

\* C7: the load voltage does not decrease from one point of a curve to the
\* next
C7_VoltageNonDecreasing ==
    Sampled =>
        \A n \in 1..(Len(last_call.data.v_load) - 1) :
            Fle(last_call.data.v_load[n], last_call.data.v_load[n + 1])

\* C7: a curve has been returned for the couple
C7_CoupleCurve_Reached ==
    Sampled /\ last_results.mode = "Couple" /\ Len(last_call.data.v_load) > 2

\* C8: the sweep has NumSamples passes, over linspace(Th_sc, Th_oc) in order,
\* and the interior of the curve is the kept passes in the order swept, so a
\* curve has at most NumSamples + 2 points
C8_SweepOrder ==
    Sampled =>
        /\ Len(last_call.sweep) = NumSamples
        /\ Array([n \in 1..NumSamples |-> last_call.sweep[n].th])
               = linspace(last_results.Th_sc, last_results.Th_oc)
        /\ Len(last_call.data.th) <= NumSamples + 2
        /\ Len(last_call.data.th) > 0 => Interior(last_call.data.th) = KeptTh(last_call.sweep)

\* C8: a sweep has kept two or more samples of different Th
C8_Kept_Reached ==
    /\ Sampled
    /\ Len(KeptTh(last_call.sweep)) >= 2
    /\ KeptTh(last_call.sweep)[1] # KeptTh(last_call.sweep)[2]

\* C9: with Tmax = Tc the run completes, R* and Isc are exactly zero and
\* nothing undefined is returned
C9_ZeroDeltaT ==
    last_call.op = "on_calc" /\ widgets \in {single_dT0, Couple_dT0} =>
        /\ last_call.err = "none"
        /\ last_results.R_star_opt = Zero
        /\ last_results.Isc = Zero
        /\ IsFin(last_results.alpha) /\ IsFin(last_results.eff) /\ IsFin(last_results.m_opt)

\* C9: a run with Tmax = Tc has ended
C9_dT0_Reached ==
    last_call.op = "on_calc" /\ widgets = Couple_dT0

(***************************************************************************)
(* Claims on the kernels                                                   *)
(***************************************************************************)
\* the last call was a run of one of the two optimizers that returned
RunReturned ==
    kernel_ret.call.op \in {"run_calc_single", "run_calc_Couple"}
    /\ kernel_ret.ret.err = "none"

\* the last call evaluated the residual of the kind
ResidualCalled(kind) == kernel_ret.call.op = "residual" /\ kernel_ret.call.kind = kind

\* C13: the conductivity integral a run evaluates between Tc and Tmax
\* (lines 357, 423, 424) is never negative
C13_IntegralNonNegative ==
    RunReturned
    => /\ Fge(geometry_of(kernel_ret.call).t.KengP, Zero)
       /\ kernel_ret.call.op = "run_calc_Couple"
          => Fge(geometry_of(kernel_ret.call).t.KengN, Zero)

\* C13: a run has returned on a Tmax below Tc
C13_ColdTmax_Reached ==
    RunReturned /\ Flt(kernel_ret.call.Tmax, kernel_ret.call.c.Tc)

\* a polynomial whose value does not depend on T, highest power first
IsFlat(p) == \A i \in 1..(Len(p) - 1) : p[i] = Zero
Negated(p) == Array([i \in DOMAIN p |-> Fneg(p[i])])

\* legs with flat Seebeck curves of equal magnitude and opposite sign, the
\* same kappa and rho curves and the same contact resistivities
Symmetric(c) ==
    /\ IsFlat(c.p_st) /\ c.n_st = Negated(c.p_st)
    /\ c.n_kt = c.p_kt /\ c.n_rt = c.p_rt
    /\ c.rc_nh = c.rc_ph /\ c.rc_nc = c.rc_pc /\ c.rc_ph = c.rc_pc

\* C15: run_calc_Couple on symmetric legs returns beta = 1 and alphaP = alphaN
C15_SymmetricLegs ==
    RunReturned /\ kernel_ret.call.op = "run_calc_Couple" /\ Symmetric(kernel_ret.call.c)
    => kernel_ret.ret.beta = One /\ kernel_ret.ret.alphaP = kernel_ret.ret.alphaN

\* C15: symmetric legs with contact resistances have been optimized
C15_Symmetric_Reached ==
    RunReturned /\ kernel_ret.call.op = "run_calc_Couple" /\ Symmetric(kernel_ret.call.c)
    /\ Fgt(kernel_ret.call.c.rc_ph, Zero) /\ kernel_ret.ret.beta = One

\* the temperatures Tc + i * (Tmax - Tc) / 4
Quarter(Tc, Tmax, i) == Fadd(Tc, Fdiv(Fmul(FromInt(i), Fsub(Tmax, Tc)), FromInt(4)))

\* a curve that is positive between Tc and Tmax (the curves of the runs are
\* straight lines)
PositiveOver(p, Tc, Tmax) == \A i \in 0..4 : Fgt(polyval(p, Quarter(Tc, Tmax, i)), Zero)

Sane(c, Tmax) ==
    /\ Fgt(Tmax, c.Tc) /\ Fgt(c.Qin, Zero)
    /\ PositiveOver(c.p_st, c.Tc, Tmax)
    /\ PositiveOver(c.p_kt, c.Tc, Tmax)
    /\ PositiveOver(c.p_rt, c.Tc, Tmax)

effc_of(c, Tmax) == Fdiv(Fsub(Tmax, c.Tc), Tmax)

\* C16: on positive S, kappa and rho curves, Qin > 0 and Tmax > Tc,
\* run_calc_single returns an efficiency strictly between 0 and
\* effc = (Tmax - Tc) / Tmax and a finite positive load ratio
C16_EfficiencyBelowCarnot ==
    RunReturned /\ kernel_ret.call.op = "run_calc_single"
    /\ Sane(kernel_ret.call.c, kernel_ret.call.Tmax)
    => /\ Fgt(kernel_ret.ret.eff, Zero)
       /\ Flt(kernel_ret.ret.eff, effc_of(kernel_ret.call.c, kernel_ret.call.Tmax))
       /\ IsFin(kernel_ret.ret.m_opt) /\ Fgt(kernel_ret.ret.m_opt, Zero)

\* C16: run_calc_single has returned on positive curves
C16_Sane_Reached ==
    RunReturned /\ kernel_ret.call.op = "run_calc_single"
    /\ Sane(kernel_ret.call.c, kernel_ret.call.Tmax)
    /\ kernel_ret.call.c.p_st = S_falling

OtherKind(kind) == MemoOf([kernel_ret.call EXCEPT !.kind = kind])

\* Th lies above the Tc of the run whose residual the last call evaluated
AboveTc == Fgt(kernel_ret.call.Th, kernel_ret.call.run.c.Tc)

\* C19: for Th > Tc the residual of the short-circuit search is the heat
\* balance of the operating-point solver and of the sampler at m = 0
C19_ShortCircuitIsBalance ==
    ResidualCalled("sc") /\ AboveTc
    => kernel_ret.ret = OtherKind("hb0") /\ kernel_ret.ret = OtherKind("smp0")

\* C19: the short-circuit residual of a couple has been evaluated above Tc
C19_CoupleResidual_Reached ==
    ResidualCalled("sc") /\ AboveTc /\ kernel_ret.call.run.op = "run_calc_Couple"
    /\ kernel_ret.call.Th # kernel_ret.call.run.Tmax

\* the arguments of a run with the geometry r that it returned
WithReturned(run, r) ==
    IF run.op = "run_calc_single" THEN run.c @@ [alpha |-> r.alpha, m |-> r.m_opt]
    ELSE run.c @@ [alphaP |-> r.alphaP, alphaN |-> r.alphaN, beta |-> r.beta,
                   m |-> r.m_opt,
                   SengP |-> Seng(polyint(run.c.p_st), run.c.Tc, run.Tmax)]

\* v is zero to within a thousandth of Qin
Balanced(v, Qin) == Fle(Fabs(v), Fmul(Fabs(Qin), Dec(1, 3)))

NotEvaluated == "not evaluated"

\* sc_eq of the run at Th, handed terms that cannot be read
sc_eq_unevaluated(c, Th) ==
    IF c.mode = "single" THEN sc_eq_single_at(c, Th, NotEvaluated)
    ELSE sc_eq_Couple_at(c, Th, NotEvaluated)

\* C21: at Th <= Tc the short-circuit residual is Qin without any of its
\* integrals or divisions, and the search starts at Tc + 20
C21_ColdGuard ==
    /\ ResidualCalled("sc") /\ ~AboveTc
       => /\ kernel_ret.ret.v = kernel_ret.call.run.c.Qin
          /\ sc_eq_unevaluated(geometry_of(kernel_ret.call.run).c, kernel_ret.call.Th)
             = kernel_ret.call.run.c.Qin
    /\ RunReturned
       => /\ StartOf("sc", kernel_ret.call.c, kernel_ret.call.Tmax)
             = Fadd(kernel_ret.call.c.Tc, FromInt(20))
          /\ kernel_ret.ret.ier_sc # 1
             => kernel_ret.ret.Th_sc = Fadd(kernel_ret.call.c.Tc, FromInt(20))

\* C21: the short-circuit residual of a couple has been evaluated below Tc
C21_Cold_Reached ==
    ResidualCalled("sc") /\ Flt(kernel_ret.call.Th, kernel_ret.call.run.c.Tc)
    /\ kernel_ret.call.run.op = "run_calc_Couple"

\* the conduction through the legs of the run at Th with the geometry r
Conduction(c, r, Th) ==
    IF c.mode = "single" THEN Fmul(r.alpha, safe_polyint_k(c.p_kt, c.Tc, Th))
    ELSE Fadd(Fmul(r.alphaP, safe_polyint_k(c.p_kt, c.Tc, Th)),
              Fmul(r.alphaN, safe_polyint_k(c.n_kt, c.Tc, Th)))

\* the Seebeck integral between Tc and Th: of the leg, and of the p leg less
\* the n leg
SeebeckOver(c, Th) ==
    IF c.mode = "single" THEN Fabs(Seng(polyint(c.p_st), c.Tc, Th))
    ELSE Fsub(Seng(polyint(c.p_st), c.Tc, Th), Seng(polyint(c.n_st), c.Tc, Th))

\* C22: above Tc the open-circuit residual is the conduction less Qin, the
\* search starts at Tmax, and Voc is the Seebeck integral between Tc and Th_oc
C22_OpenCircuitConduction ==
    /\ ResidualCalled("oc") /\ AboveTc
       => kernel_ret.ret.v = Fsub(Conduction(kernel_ret.call.run.c,
                                             MemoOf(kernel_ret.call.run),
                                             kernel_ret.call.Th),
                                  kernel_ret.call.run.c.Qin)
    /\ kernel_ret.call.op = "on_calc"
       => /\ StartOf("oc", kernel_ret.call.run.c, kernel_ret.call.run.Tmax)
             = kernel_ret.call.run.Tmax
          /\ kernel_ret.ret.ier_oc # 1 => kernel_ret.ret.Th_oc = kernel_ret.call.run.Tmax
          /\ kernel_ret.ret.Voc = SeebeckOver(kernel_ret.call.run.c, kernel_ret.ret.Th_oc)

\* C22: the open-circuit point of a couple has been solved
C22_OpenCircuit_Reached ==
    kernel_ret.call.op = "on_calc" /\ kernel_ret.call.run.op = "run_calc_Couple"
    /\ kernel_ret.ret.ier_oc = 1 /\ Fgt(kernel_ret.ret.Th_oc, kernel_ret.call.run.Tmax)


(***************************************************************************)
(* Claims on the reported results                                          *)
(***************************************************************************)
\* C14: the short-circuit current and the open-circuit voltage a successful
\* run reports are not negative, in both modes and for every assignment of
\* the P and N curves
C14_NonNegativeIscVoc ==
    last_results # None =>
        Fge(last_results.Voc, Zero) /\ Fge(last_results.Isc, Zero)

\* C14: a run of the couple has stored its result
C14_CoupleStored_Reached ==
    last_results # None /\ last_results.mode = "Couple"

\* C17: the open-circuit results carry the advisory exactly when the solved
\* Th_oc exceeds Tmax
C17_AdvisoryOnlyAboveTmax ==
    last_call.op = "on_calc" /\ last_call.err = "none" =>
        (last_call.advisory <=> Fgt(last_results.Th_oc, last_results.Tmax))

\* C17: a run has reported an open-circuit temperature that is not above Tmax
C17_WithinLimits_Reached ==
    /\ last_call.op = "on_calc" /\ last_call.err = "none"
    /\ Fle(last_results.Th_oc, last_results.Tmax)

\* the converted contact resistivity entries of a sheet, in the order of
\* Contacts
EnteredContacts(mode, w) ==
    IF mode = "single"
    THEN <<unit_convert_resist(w.gamma_h, w.gamma_h_unit).v,
           unit_convert_resist(w.gamma_c, w.gamma_c_unit).v>>
    ELSE <<unit_convert_resist(w.gamma_ph, w.gamma_ph_unit).v,
           unit_convert_resist(w.gamma_pc, w.gamma_pc_unit).v,
           unit_convert_resist(w.gamma_nh, w.gamma_nh_unit).v,
           unit_convert_resist(w.gamma_nc, w.gamma_nc_unit).v>>

\* the contact resistivities a stored result holds
Contacts(p) ==
    IF p.mode = "single" THEN <<p.gamma_c_h, p.gamma_c_c>>
    ELSE <<p.rc_ph, p.rc_pc, p.rc_nh, p.rc_nc>>

\* the last action was a Run Optimization that stored its result; widgets
\* still hold what it read
RunStored == last_call.op = "on_calc" /\ last_call.err = "none"

\* C30: with the contact resistance disabled a run stores L = 1.0 and contact
\* resistivities of 0 whatever the length and resistivity entries hold, and
\* a blank length entry does not fail it; with the contact resistance
\* enabled it stores the converted entries
C30_ContactsOnlyWhenEnabled ==
    /\ RunStored /\ widgets.use_resist = "No" =>
           /\ last_results.Lmax = One
           /\ \A n \in DOMAIN Contacts(last_results) : Contacts(last_results)[n] = Zero
    /\ last_call.op = "on_calc" /\ widgets = single_falling => last_call.err = "none"
    /\ RunStored /\ widgets.use_resist = "Yes" =>
           /\ last_results.Lmax = unit_convert_length(widgets.L, widgets.L_unit).v
           /\ Contacts(last_results) = EnteredContacts(mode_var, widgets)

\* C30: a run with the contact resistance disabled has stored its result over
\* a blank length entry, and the length entry of the defaults converts to
\* another value than 1.0
C30_BlankLength_Reached ==
    /\ RunStored /\ widgets = single_falling
    /\ unit_convert_length(widgets.L, widgets.L_unit).err = "ValueError"
    /\ unit_convert_length(single_defaults.L, single_defaults.L_unit).v # One

\* the names of the six series of a curve
SeriesNames == {"m", "v_load", "th", "eta", "i", "rstar"}

\* C28: the six series of a returned curve have the same length: one element
\* for each kept sample, none for a sample left out, and the two end points
\* in all six exactly when at least one sample was kept
C28_ParallelSeries ==
    Sampled =>
        \A f \in SeriesNames :
            /\ Len(last_call.data[f])
                   = IF Len(SelectSeq(last_call.sweep, IsKept)) = 0 THEN 0
                     ELSE Len(SelectSeq(last_call.sweep, IsKept)) + 2
            /\ \A n \in 1..Len(SelectSeq(last_call.sweep, IsKept)) :
                   last_call.data[f][n + 1] = SelectSeq(last_call.sweep, IsKept)[n][f]

\* C28: a curve has been returned that holds the end points and fewer
\* samples than were swept
C28_Closed_Reached ==
    /\ Sampled
    /\ Len(last_call.data.rstar) >= 3
    /\ Len(last_call.data.rstar) < NumSamples + 2

\* C27: last_results is None or the result of a successful Run Optimization
\* of the current mode: it changes to a result only by a run that succeeded
\* on the current sheet, a change of mode and a failed run leave it None,
\* and Generate Load Curves on None produces no curve
C27_ResultOfCurrentMode ==
    [][/\ last_results' # None => last_results'.mode = mode_var'
       /\ last_results' # last_results /\ last_results' # None
              => /\ last_call'.op = "on_calc" /\ last_call'.err = "none"
                 /\ last_results' = try_calc(mode_var, widgets)
       /\ mode_var' # mode_var => last_results' = None
       /\ last_call'.op = "on_calc" /\ last_call'.err # "none" => last_results' = None
       /\ last_call'.op = "curves" /\ last_results = None
              => last_call'.msg = "Please run first"]_vars

\* C27: a result is stored after the mode was changed and changed back
C27_AfterSwitch_Reached ==
    last_results # None /\ mode_var = "single" /\ _input_cache.Couple # EmptyDict

(***************************************************************************)
(* Claims on the plot window                                               *)
(***************************************************************************)
\* the last action was a Generate Load Curves that opened a plot
Plotted == last_call.op = "curves" /\ last_call.msg = "plot"

\* the Seebeck integral between Tc and Tmax of a stored result, of the leg
\* or of the p leg less the n leg
S_int(lr) ==
    IF lr.mode = "single" THEN Seng(polyint(lr.s_poly), lr.Tc, lr.Tmax)
    ELSE Fsub(Seng(polyint(lr.p_s_poly), lr.Tc, lr.Tmax),
              Seng(polyint(lr.n_s_poly), lr.Tc, lr.Tmax))

\* C23: the curve at fixed Tmax has one (V, eta) point for each element of
\* the m series of the primary curve, the prepended 0 and the appended 1e9
\* included, in the same order, with eta >= 0 and
\* V = |S_int(Tc, Tmax)| * m / (1 + m)
C23_FixedTmaxCurve ==
    Plotted =>
        /\ _dash_curve_export.set
        /\ _dash_curve_export.m = last_call.data.m
        /\ Len(_dash_curve_export.v) = Len(last_call.data.m)
        /\ Len(_dash_curve_export.eta) = Len(last_call.data.m)
        /\ last_call.data.m[1] = Zero
        /\ last_call.data.m[Len(last_call.data.m)] = FromInt(10^9)
        /\ \A n \in DOMAIN last_call.data.m :
               /\ Fge(_dash_curve_export.eta[n], Zero)
               /\ _dash_curve_export.v[n]
                      = Fmul(Fabs(S_int(last_results)), LoadShare(last_call.data.m[n]))

\* C23: a couple whose Seebeck integral is negative has been plotted
C23_NegativeSeebeck_Reached ==
    Plotted /\ Flt(S_int(last_results), Zero)

\* the last action was an export that copied its text
Copied == last_call.op = "export" /\ last_call.msg = "Copied"

\* C26: the columns of the primary curve, the columns of the curve at fixed
\* Tmax and the optimum row of one export come from the same run and the
\* same curve generation, those of the window whose button was pressed
C26_ExportOfOneRun ==
    Copied =>
        /\ last_call.m = plot_window.data.m
        /\ last_call.opt = opt_row(plot_window.lr)
        /\ last_call.has_dash
        /\ last_call.v_dash = try_dash(plot_window.lr).v
        /\ last_call.eta_dash = try_dash(plot_window.lr).eta

\* C26: the window of an earlier run has exported after a later run
C26_OlderWindow_Reached ==
    Copied /\ plot_window.lr # last_results

\* C29: Generate Load Curves and the export leave last_results as the run
\* stored it, and the curves are those of the stored result, whatever the
\* entries hold by then
C29_SnapshotUnchanged ==
    [][/\ last_call'.op \in {"curves", "export"} => last_results' = last_results
       /\ last_call'.op = "curves" /\ last_call'.msg # "Please run first"
              => last_call' = try_curves(last_results')]_vars

\* C29: curves have been plotted and exported after the entries were changed
C29_EditedSince_Reached ==
    /\ Copied
    /\ plot_window.lr = last_results
    /\ try_calc(mode_var, widgets) # last_results

(***************************************************************************)
(* Claims on the custom material library                                   *)
(***************************************************************************)
\* the dicts written out in toks from toks[i] on, whatever stands around them
RECURSIVE dicts_from(_, _)
dicts_from(toks, i) ==
    IF i > Len(toks) THEN <<>>
    ELSE IF IsPunct(toks[i], "{")
         THEN IF object_at(toks, i).ok
              THEN <<object_at(toks, i).val>> \o dicts_from(toks, object_at(toks, i).next)
              ELSE dicts_from(toks, i + 1)
         ELSE dicts_from(toks, i + 1)

\* the entries a file holds, whether or not the file loads
EntriesIn(file) == dicts_from(Joined(SelectSeq(file.lines, KeptLine)), 1)

\* the items that are not called as entry is
RECURSIVE Others(_, _)
Others(items, entry) ==
    IF Len(items) = 0 THEN <<>>
    ELSE IF get_name(Head(items)) = get_name(entry) THEN Others(Tail(items), entry)
    ELSE <<Head(items)>> \o Others(Tail(items), entry)

\* whether the elements of s are found in t in the same order
RECURSIVE IsSubSeq(_, _)
IsSubSeq(s, t) ==
    IF Len(s) = 0 THEN TRUE
    ELSE IF Len(t) = 0 THEN FALSE
    ELSE IF Head(s) = Head(t) THEN IsSubSeq(Tail(s), Tail(t))
    ELSE IsSubSeq(s, Tail(t))

\* whether an item of items is called as entry is
Named(items, entry) == \E n \in 1..Len(items) : get_name(items[n]) = get_name(entry)

\* the catalog a load returns from a file
Catalog(file) == load_custom_materials(file).items

\* C24: save_material_to_custom_lib is an upsert by name: a load after the
\* save returns the entry under its name, in the place of the stored entry
\* of that name or else at the end, and a second save of the same entry
\* leaves the file as the first left it
C24_UpsertByName ==
    [][lib_ret'.op = "save" =>
           /\ lib_ret'.err = "none"
           /\ \E n \in 1..Len(Catalog(lib_file')) : Catalog(lib_file')[n] = lib_ret'.entry
           /\ IF Named(Catalog(lib_file), lib_ret'.entry)
              THEN Catalog(lib_file')
                       = [Catalog(lib_file)
                              EXCEPT ![index(names_of(Catalog(lib_file)),
                                             get_name(lib_ret'.entry))] = lib_ret'.entry]
              ELSE Catalog(lib_file') = Append(Catalog(lib_file), lib_ret'.entry)
           /\ lib_ret.op = "save" => (lib_ret.entry = lib_ret'.entry => lib_file' = lib_file)
      ]_vars

\* C24: a save has replaced an entry that is not the last of the catalog
C24_Replaced_Reached ==
    /\ lib_ret.op = "save"
    /\ Len(Catalog(lib_file)) >= 2
    /\ Catalog(lib_file)[Len(Catalog(lib_file))] # lib_ret.entry

\* C25: a save leaves every entry of another name that the file held before
\* it, unchanged and in the same order, whatever the file held, a file that
\* does not load included
C25_OtherEntriesKept ==
    [][lib_ret'.op = "save" =>
           IsSubSeq(Others(EntriesIn(lib_file), lib_ret'.entry), EntriesIn(lib_file'))]_vars

\* C25: a save has been made on a file that holds entries and does not load
C25_Unloadable_Reached ==
    /\ lib_ret.op = "edit" /\ lib_ret.edit = "cut"
    /\ Len(EntriesIn(lib_file)) >= 2
    /\ Len(Catalog(lib_file)) = 0
====
